---- MODULE Spec2Model ----
(***************************************************************************)
(* A model of inspire_utils/name.py: the personal-name parser wrapper      *)
(* (ParsedName), the canonical normalizer (dumps), the display form        *)
(* (pprint / format_name) and the variation generator                      *)
(* (generate_name_variations), together with the one piece of process-wide *)
(* state they share: the nameparser Constants object held in the class     *)
(* attribute ParsedName.constants.  With it go the clause wrapper of       *)
(* inspire_utils/query.py and, as a specification of its own               *)
(* (SpecAffiliations), normalize_affiliations of inspire_utils/record.py.  *)
(*                                                                         *)
(* A Python string is modelled as a sequence of characters.  A character   *)
(* is a one-character TLA+ string; a character outside ASCII is written by *)
(* its code point ("U+00E9" is LATIN SMALL LETTER E WITH ACUTE, "U+00C9"   *)
(* its capital, "U+857E" a CJK ideograph, "U+2019" the curly apostrophe).  *)
(* A Python value handed to the public functions is a record               *)
(* [type, chars]: type is "str", "NoneType" or "int"; chars is the string  *)
(* itself, or the decimal digits of an int.                                *)
(***************************************************************************)
EXTENDS Integers, Sequences, FiniteSets, TLC

(***************************************************************************)
(* Characters and the str methods the code uses.                           *)
(***************************************************************************)
Lowers ==
    <<"a","b","c","d","e","f","g","h","i","j","k","l","m","n","o","p","q",
      "r","s","t","u","v","w","x","y","z","U+00E9">>

Uppers ==
    <<"A","B","C","D","E","F","G","H","I","J","K","L","M","N","O","P","Q",
      "R","S","T","U","V","W","X","Y","Z","U+00C9">>

Digits == {"0","1","2","3","4","5","6","7","8","9"}

Whitespace == {" ", "\t"}

IsLowerChar(c) == \E i \in 1..Len(Lowers) : Lowers[i] = c

IsUpperChar(c) == \E i \in 1..Len(Uppers) : Uppers[i] = c

lower_char(c) ==
    IF IsUpperChar(c) THEN Lowers[CHOOSE i \in 1..Len(Uppers) : Uppers[i] = c]
    ELSE c

upper_char(c) ==
    IF IsLowerChar(c) THEN Uppers[CHOOSE i \in 1..Len(Lowers) : Lowers[i] = c]
    ELSE c

\* str.lower()
lower(s) == [i \in 1..Len(s) |-> lower_char(s[i])]

\* str.upper()
upper(s) == [i \in 1..Len(s) |-> upper_char(s[i])]

\* str.isspace(): non-empty and made of whitespace only
isspace(s) == s # <<>> /\ \A i \in 1..Len(s) : s[i] \in Whitespace

\* sub in s
contains(s, sub) ==
    \E i \in 1..(Len(s) - Len(sub) + 1) : SubSeq(s, i, i + Len(sub) - 1) = sub

RECURSIVE lstrip(_, _)
lstrip(s, chars) ==
    IF s # <<>> /\ Head(s) \in chars THEN lstrip(Tail(s), chars) ELSE s

RECURSIVE rstrip(_, _)
rstrip(s, chars) ==
    IF s # <<>> /\ s[Len(s)] \in chars
    THEN rstrip(SubSeq(s, 1, Len(s) - 1), chars)
    ELSE s

\* str.strip(chars)
strip(s, chars) == rstrip(lstrip(s, chars), chars)

RECURSIVE split_acc(_, _, _)
split_acc(rest, sep, cur) ==
    IF rest = <<>> THEN <<cur>>
    ELSE LET at_sep == Len(rest) >= Len(sep) /\ SubSeq(rest, 1, Len(sep)) = sep
         IN (IF at_sep THEN <<cur>> ELSE <<>>)
            \o split_acc(IF at_sep THEN SubSeq(rest, Len(sep) + 1, Len(rest)) ELSE Tail(rest),
                         sep,
                         IF at_sep THEN <<>> ELSE Append(cur, Head(rest)))

\* str.split(sep) with an explicit separator: ''.split(' ') is ['']
split(s, sep) == split_acc(s, sep, <<>>)

RECURSIVE join(_, _)
\* sep.join(list)
join(sep, list) ==
    IF list = <<>> THEN <<>>
    ELSE IF Len(list) = 1 THEN list[1]
    ELSE list[1] \o sep \o join(sep, Tail(list))

RECURSIVE flatten(_)
\* itertools.chain.from_iterable
flatten(lists) ==
    IF lists = <<>> THEN <<>> ELSE Head(lists) \o flatten(Tail(lists))

\* str.replace(old, new) for a single character old
replace(s, old, new) ==
    flatten([i \in 1..Len(s) |-> IF s[i] = old THEN new ELSE <<s[i]>>])

\* list(filter(None, list))
filter_none(list) == SelectSeq(list, LAMBDA x : x # <<>>)

\* unidecode's transliteration of one character: ASCII is kept, an accented
\* letter loses its accent, a CJK ideograph becomes its romanisation
\* followed by a space, the curly apostrophe becomes the ASCII one.
unidecode_char(c) ==
    CASE c = "U+00E9" -> <<"e">>
      [] c = "U+00C9" -> <<"E">>
      [] c = "U+857E" -> <<"L","e","i"," ">>
      [] c = "U+2019" -> <<"'">>
      [] OTHER -> <<c>>

unidecode(s) == flatten([i \in 1..Len(s) |-> unidecode_char(s[i])])

IsAscii(s) == \A i \in 1..Len(s) : unidecode_char(s[i]) = <<s[i]>>

(***************************************************************************)
(* The process-wide constants table.                                       *)
(***************************************************************************)
roman_numeral_suffixes ==
    { <<"v","i">>, <<"v","i","i">>, <<"v","i","i","i">>, <<"i","x">>, <<"x">>,
      <<"x","i">>, <<"x","i","i">>, <<"x","i","i","i">>, <<"x","i","v">>,
      <<"x","v">> }

\* The titles of name.py, as the Constants set manager stores them
\* (lower-cased).
titles ==
    { <<"d","r">>, <<"p","r","o","f">>,
      <<"p","r","o","f","e","s","s","o","r">>, <<"s","i","r">>,
      <<"e","d","i","t","o","r">>, <<"e","d">>, <<"m","r">>, <<"m","r","s">>,
      <<"m","s">>, <<"c","h","a","i","r">>,
      <<"c","o","-","c","h","a","i","r">>, <<"c","h","a","i","r","s">>,
      <<"c","o","-","c","h","a","i","r","s">> }

\* nameparser's own suffixes that are not acronyms, which name.py keeps.
default_suffix_not_acronyms ==
    { <<"e","s","q">>, <<"e","s","q","u","i","r","e">>, <<"j","r">>,
      <<"j","n","r">>, <<"s","r">>, <<"s","n","r">>, <<"2">>, <<"i">>,
      <<"i","i">>, <<"i","i","i">>, <<"i","v">>, <<"v">> }

\* nameparser's titles after which a lone name is a first name; of these
\* only 'sir' is also a title of name.py.
first_name_titles ==
    { <<"s","i","r">>, <<"d","a","m","e">>, <<"m","a","s","t","e","r">> }

_prepare_nameparser_constants ==
    [ titles |-> titles,
      suffix_not_acronyms |-> default_suffix_not_acronyms \cup roman_numeral_suffixes,
      suffix_acronyms |-> {},
      suffixes_prefixes_titles |-> {},
      first_name_titles |-> first_name_titles ]

(***************************************************************************)
(* nameparser.HumanName, as name.py uses it.  The library is not part of   *)
(* the repository; the model follows its parsing algorithm for names       *)
(* without nicknames, prefixes ("van", "de") and conjunctions, none of     *)
(* which occurs in the inputs below.                                       *)
(***************************************************************************)
\* lc(): lower-case and strip periods, for comparison with the constants
lc(value) == strip(lower(value), {"."})

is_title(piece, C) == lc(piece) \in C.titles

is_suffix(piece, C) ==
    \/ replace(lc(piece), ".", <<>>) \in C.suffix_acronyms
    \/ lc(piece) \in C.suffix_not_acronyms

are_suffixes(pieces, C) == \A i \in 1..Len(pieces) : is_suffix(pieces[i], C)

RECURSIVE collapse_runs(_)
collapse_runs(s) ==
    IF s = <<>> THEN <<>>
    ELSE LET space == Head(s) \in Whitespace
         IN <<IF space THEN " " ELSE Head(s)>>
            \o collapse_runs(IF space THEN lstrip(s, Whitespace) ELSE Tail(s))

collapse_whitespace(s) == collapse_runs(strip(s, Whitespace))

parse_pieces(parts) ==
    flatten([i \in 1..Len(parts) |->
        LET ws == split(parts[i], <<" ">>)
        IN [j \in 1..Len(ws) |-> strip(ws[j], {" ", ","})]])

EmptyName ==
    [ title_list |-> <<>>, first_list |-> <<>>, middle_list |-> <<>>,
      last_list |-> <<>>, suffix_list |-> <<>> ]

hn_title(hn) == join(<<" ">>, hn.title_list)

hn_first(hn) == join(<<" ">>, hn.first_list)

hn_middle(hn) == join(<<" ">>, hn.middle_list)

hn_last(hn) == join(<<" ">>, hn.last_list)

hn_suffix(hn) == join(<<",", " ">>, hn.suffix_list)

\* len(HumanName): the number of non-empty members
hn_len(hn) ==
    Cardinality({ k \in 1..5 :
        <<hn_title(hn), hn_first(hn), hn_middle(hn), hn_last(hn), hn_suffix(hn)>>[k] # <<>> })

\* One round of the loop over the pieces of a name without a comma, or of
\* the part before a suffix comma ("title first middle middle last
\* suffix"): the lists after it, and whether the loop breaks
first_last_step(pieces, i, acc, C) ==
    LET piece == pieces[i]
        nxt == IF i < Len(pieces) THEN pieces[i + 1] ELSE <<>>
        rest == SubSeq(pieces, i + 1, Len(pieces))
        no_first == hn_first(acc) = <<>>
    IN IF is_title(piece, C) /\ (nxt # <<>> \/ Len(pieces) = 1) /\ no_first
       THEN [acc |-> [acc EXCEPT !.title_list = Append(@, piece)], break |-> FALSE]
       ELSE IF no_first
       THEN [acc |-> [acc EXCEPT !.first_list = Append(@, piece)], break |-> FALSE]
       ELSE IF are_suffixes(rest, C)
       THEN [acc |-> [acc EXCEPT !.last_list = Append(@, piece), !.suffix_list = rest \o @],
             break |-> TRUE]
       ELSE IF nxt = <<>>
       THEN [acc |-> [acc EXCEPT !.last_list = Append(@, piece)], break |-> FALSE]
       ELSE [acc |-> [acc EXCEPT !.middle_list = Append(@, piece)], break |-> FALSE]

RECURSIVE parse_first_last(_, _, _, _)
parse_first_last(pieces, i, acc, C) ==
    IF i > Len(pieces) THEN acc
    ELSE LET round == first_last_step(pieces, i, acc, C)
         IN IF round.break THEN round.acc
            ELSE parse_first_last(pieces, i + 1, round.acc, C)

RECURSIVE parse_lastname_pieces(_, _, _, _)
\* "last [suffix]": the part before a lastname comma; the first piece is a
\* last name even if it looks like a suffix
parse_lastname_pieces(pieces, i, acc, C) ==
    IF i > Len(pieces) THEN acc
    ELSE parse_lastname_pieces(pieces, i + 1,
             IF is_suffix(pieces[i], C) /\ Len(acc.last_list) > 0
             THEN [acc EXCEPT !.suffix_list = Append(@, pieces[i])]
             ELSE [acc EXCEPT !.last_list = Append(@, pieces[i])],
             C)

\* One round of the loop over the part after a lastname comma ("title
\* first middles suffix")
after_comma_step(pieces, i, acc, C) ==
    LET piece == pieces[i]
        nxt == IF i < Len(pieces) THEN pieces[i + 1] ELSE <<>>
        no_first == hn_first(acc) = <<>>
    IN IF is_title(piece, C) /\ (nxt # <<>> \/ Len(pieces) = 1) /\ no_first
       THEN [acc EXCEPT !.title_list = Append(@, piece)]
       ELSE IF no_first THEN [acc EXCEPT !.first_list = Append(@, piece)]
       ELSE IF is_suffix(piece, C) THEN [acc EXCEPT !.suffix_list = Append(@, piece)]
       ELSE [acc EXCEPT !.middle_list = Append(@, piece)]

RECURSIVE parse_after_comma(_, _, _, _)
parse_after_comma(pieces, i, acc, C) ==
    IF i > Len(pieces) THEN acc
    ELSE parse_after_comma(pieces, i + 1, after_comma_step(pieces, i, acc, C), C)

\* If there are only a title and one other part, the other part is a last
\* name, unless the title is one like "Sir".
handle_firstnames(hn, C) ==
    IF hn_title(hn) # <<>> /\ hn_len(hn) = 2 /\ lc(hn_title(hn)) \notin C.first_name_titles
    THEN [hn EXCEPT !.last_list = parse_pieces(<<hn_first(hn)>>),
                    !.first_list = parse_pieces(<<hn_last(hn)>>)]
    ELSE hn

\* The name broken up by commas, each part stripped
comma_parts(full_name) ==
    LET raw_parts == split(collapse_whitespace(full_name), <<",">>)
    IN [i \in 1..Len(raw_parts) |-> strip(raw_parts[i], Whitespace)]

\* "last [suffix], title first middles[,] suffix [,suffix]"
parse_lastname_comma(parts, C) ==
    parse_after_comma(
        parse_pieces(split(parts[2], <<" ">>)), 1,
        parse_lastname_pieces(parse_pieces(split(parts[1], <<" ">>)), 1, EmptyName, C),
        C)

\* The parts after the second comma are suffixes, if the first of them is
\* not empty
add_suffix_parts(parts, hn) ==
    IF Len(parts) >= 3 /\ parts[3] # <<>>
    THEN [hn EXCEPT !.suffix_list = @ \o SubSeq(parts, 3, Len(parts))]
    ELSE hn

parse_parts(parts, C) ==
    IF Len(parts) = 1
    THEN parse_first_last(parse_pieces(parts), 1, EmptyName, C)
    ELSE IF are_suffixes(split(parts[2], <<" ">>), C) /\ Len(split(parts[1], <<" ">>)) > 1
    THEN parse_first_last(parse_pieces(split(parts[1], <<" ">>)), 1,
                          [EmptyName EXCEPT !.suffix_list = Tail(parts)], C)
    ELSE add_suffix_parts(parts, parse_lastname_comma(parts, C))

parse_full_name(full_name, C) ==
    handle_firstnames(parse_parts(comma_parts(full_name), C), C)

IsWordChar(c) == IsLowerChar(c) \/ IsUpperChar(c) \/ c \in Digits \/ c = "U+857E" \/ c = "."

\* cap_word: the capitalization exceptions, else str.capitalize()
cap_word(word) ==
    CASE lc(word) = <<"i","i">> -> <<"I","I">>
      [] lc(word) = <<"i","i","i">> -> <<"I","I","I">>
      [] lc(word) = <<"i","v">> -> <<"I","V">>
      [] OTHER -> [i \in 1..Len(word) |->
                      IF i = 1 THEN upper_char(word[i]) ELSE lower_char(word[i])]

RECURSIVE cap_piece(_)
\* cap_piece: cap_word on every maximal run of word characters and periods
cap_piece(piece) ==
    IF piece = <<>> THEN <<>>
    ELSE LET word == IsWordChar(Head(piece))
             n == IF ~word THEN 1
                  ELSE CHOOSE k \in 1..Len(piece) :
                          /\ \A j \in 1..k : IsWordChar(piece[j])
                          /\ (k = Len(piece) \/ ~IsWordChar(piece[k + 1]))
         IN (IF word THEN cap_word(SubSeq(piece, 1, n)) ELSE <<Head(piece)>>)
            \o cap_piece(SubSeq(piece, n + 1, Len(piece)))

\* HumanName.capitalize(): only a name written in a single case is touched
capitalize(hn) ==
    LET name == hn_title(hn) \o hn_first(hn) \o hn_middle(hn) \o hn_last(hn) \o hn_suffix(hn)
    IN IF ~(name = upper(name) \/ name = lower(name)) THEN hn
       ELSE [ title_list |-> split(cap_piece(hn_title(hn)), <<" ">>),
              first_list |-> split(cap_piece(hn_first(hn)), <<" ">>),
              middle_list |-> split(cap_piece(hn_middle(hn)), <<" ">>),
              last_list |-> split(cap_piece(hn_last(hn)), <<" ">>),
              suffix_list |-> split(cap_piece(hn_suffix(hn)), <<",", " ">>) ]

\* str(HumanName): "{title} {first} {middle} {last} {suffix}" with the
\* whitespace collapsed
hn_str(hn) ==
    strip(collapse_whitespace(hn_title(hn) \o <<" ">> \o hn_first(hn) \o <<" ">>
                              \o hn_middle(hn) \o <<" ">> \o hn_last(hn) \o <<" ">>
                              \o hn_suffix(hn)),
          {" ", ","})

\* The setter of a HumanName member: None gives no piece, a string its pieces
set_list(value) == IF value.type = "NoneType" THEN <<>> ELSE parse_pieces(<<value.chars>>)

\* "x in name" for a HumanName: the iteration yields the non-empty members
hn_contains(hn, x) ==
    x # <<>> /\ x \in {hn_title(hn), hn_first(hn), hn_middle(hn), hn_last(hn), hn_suffix(hn)}

(***************************************************************************)
(* Python values, results and diagnostics.                                 *)
(***************************************************************************)
PyStr(chars) == [type |-> "str", chars |-> chars]

PyNone == [type |-> "NoneType", chars |-> <<>>]

PyInt(digits) == [type |-> "int", chars |-> digits]

\* isinstance(name, six.string_types)
IsString(name) == name.type = "str"

\* Python truthiness of a str, None or int value
Truthy(name) ==
    CASE name.type = "str" -> name.chars # <<>>
      [] name.type = "int" -> name.chars # <<"0">>
      [] OTHER -> FALSE

NoObj == [_parsed_name |-> EmptyName, original |-> <<>>, maybe_only_last_name |-> FALSE]

\* A node of a query tree: {} ("{}"), a match or match_phrase_prefix on a
\* field, a bool.must or bool.should of clauses, or the nested node, whose
\* clauses are its query.bool.must
EmptyQuery ==
    [kind |-> "{}", field |-> <<>>, query |-> <<>>, operator |-> "", analyzer |-> "",
     path |-> <<>>, clauses |-> <<>>]

NoResult ==
    [kind |-> "none", exc |-> "", obj |-> NoObj, str |-> <<>>, elems |-> {}, len |-> 0,
     query |-> EmptyQuery]

Raise(exc) == [NoResult EXCEPT !.kind = "raise", !.exc = exc]

RetObj(obj) == [NoResult EXCEPT !.kind = "ParsedName", !.obj = obj]

RetStr(s) == [NoResult EXCEPT !.kind = "str", !.str = s]

RetNone == [NoResult EXCEPT !.kind = "None"]

RetQuery(query) == [NoResult EXCEPT !.kind = "dict", !.query = query]

\* A returned list, its order left open: the elements and their number.
RetList(elems, n) == [NoResult EXCEPT !.kind = "list", !.elems = elems, !.len = n]

\* LOGGER.warning(...) calls, by the start of the message and its argument
CannotProcess(original) == [msg |-> "Cannot process", arg |-> original]

Skipping(name) == [msg |-> "Skipping name variations generation", arg |-> name]

(***************************************************************************)
(* class ParsedName                                                        *)
(***************************************************************************)
\* "if not first: first = title; title = ''", through HumanName's setters
promote_title(hn) ==
    IF hn_first(hn) = <<>>
    THEN [hn EXCEPT !.first_list = parse_pieces(<<hn_title(hn)>>),
                    !.title_list = parse_pieces(<<<<>>>>)]
    ELSE hn

\* The object of __init__ with the flag set without a look at the commas
new_ParsedName_ignoring_comma(name, hn) ==
    [ _parsed_name |-> hn,
      original |-> name,
      maybe_only_last_name |->
          LET first_list_ == filter_none(hn.first_list \o hn.middle_list)
          IN \/ first_list_ = <<>>
             \/ ~contains(first_list_[Len(first_list_)], <<".">>) ]

\* The object __init__ leaves, given the parsed and capitalized HumanName
new_ParsedName(name, hn) ==
    [ _parsed_name |-> hn,
      original |-> name,
      maybe_only_last_name |->
          LET first_list_ == filter_none(hn.first_list \o hn.middle_list)
          IN /\ ~contains(name, <<",">>)
             /\ \/ first_list_ = <<>>
                \/ ~contains(first_list_[Len(first_list_)], <<".">>) ]

\* __init__ once "constants" is bound: HumanName(name, constants=constants)
\* raises a TypeError for a name that is no string
ParsedName_parse(name, C) ==
    IF ~IsString(name)
    THEN [constants |-> C, exc |-> "TypeError", obj |-> NoObj]
    ELSE [constants |-> C, exc |-> "",
          obj |-> new_ParsedName(name.chars,
                      capitalize(promote_title(parse_full_name(name.chars, C))))]

\* ParsedName.__init__(name, constants=None, without_titles=False), given
\* the shared table: the table as the call leaves it, and the exception or
\* the new object.
ParsedName_init(name, shared, without_titles) ==
    ParsedName_parse(name, IF without_titles THEN [shared EXCEPT !.titles = {}] ELSE shared)

\* len(parsed_name)
pn_len(self) == hn_len(self._parsed_name)

\* first_list with the title in front of the given names
first_list_with_title(self) ==
    filter_none(self._parsed_name.title_list \o self._parsed_name.first_list
                \o self._parsed_name.middle_list)

first_list(self) ==
    filter_none(self._parsed_name.first_list \o self._parsed_name.middle_list)

first(self) ==
    strip(hn_first(self._parsed_name) \o <<" ">> \o hn_middle(self._parsed_name), Whitespace)

last(self) == hn_last(self._parsed_name)

last_list(self) == self._parsed_name.last_list

suffix(self) == hn_suffix(self._parsed_name)

suffix_list(self) == self._parsed_name.suffix_list

\* chain.from_iterable(name.split(sep) for name in names)
split_all(names, sep) == flatten([i \in 1..Len(names) |-> split(names[i], sep)])

\* [(name[0] + u'.') for name in names if name]
initials_of(names) ==
    [i \in 1..Len(filter_none(names)) |-> <<filter_none(names)[i][1], ".">>]

\* first_initials_list without the split on dashes
first_initials_list_of_dotted(self) == initials_of(split_all(first_list(self), <<".">>))

first_initials_list(self) ==
    initials_of(split_all(split_all(first_list(self), <<"-">>), <<".">>))

first_initials(self) == join(<<" ">>, first_initials_list(self))

\* loads without the test for a whitespace-only string
loads_without_isspace(name, shared) ==
    IF ~IsString(name) THEN [exc |-> "TypeError", obj |-> NoObj]
    ELSE IF name.chars = <<>> THEN [exc |-> "ValueError", obj |-> NoObj]
    ELSE [exc |-> "", obj |-> ParsedName_init(name, shared, FALSE).obj]

\* ParsedName.loads(name): the exception or the new object
loads(name, shared) ==
    IF ~IsString(name) THEN [exc |-> "TypeError", obj |-> NoObj]
    ELSE IF name.chars = <<>> \/ isspace(name.chars) THEN [exc |-> "ValueError", obj |-> NoObj]
    ELSE [exc |-> "", obj |-> ParsedName_init(name, shared, FALSE).obj]

_is_initial(author_name) == Len(author_name) = 1 \/ contains(author_name, <<".">>)

_ensure_dotted_initials(author_name) ==
    IF _is_initial(author_name) /\ ~contains(author_name, <<".">>)
    THEN author_name \o <<".">>
    ELSE author_name

_ensure_dotted_suffixes(author_suffix) ==
    IF ~contains(author_suffix, <<".">>) THEN author_suffix \o <<".">> ELSE author_suffix

_is_roman_numeral(suffix_) ==
    \A i \in 1..Len(suffix_) :
        upper_char(suffix_[i]) \in {"M", "D", "C", "L", "X", "V", "I", "(", ")"}

RECURSIVE names_with_spaces_always(_, _)
\* the loop of dumps with a space between any two names
names_with_spaces_always(names, i) ==
    IF i > Len(names) THEN <<>>
    ELSE <<" ">> \o names[i] \o names_with_spaces_always(names, i + 1)

RECURSIVE names_with_spaces(_, _)
\* the loop of dumps over the names after the first: a space goes between
\* two names unless both are initials
names_with_spaces(names, i) ==
    IF i > Len(names) THEN <<>>
    ELSE (IF ~_is_initial(names[i]) \/ ~_is_initial(names[i - 1]) THEN <<" ">> ELSE <<>>)
         \o names[i] \o names_with_spaces(names, i + 1)

\* u''.join(names_with_spaces)
normalized_names(first_and_middle_names) ==
    IF first_and_middle_names = <<>> THEN <<>>
    ELSE first_and_middle_names[1] \o names_with_spaces(first_and_middle_names, 2)

\* the suffix of dumps without the roman-numeral case
dumps_suffix_always_dotted(suffix_) == _ensure_dotted_suffixes(suffix_)

dumps_suffix(suffix_) ==
    IF _is_roman_numeral(suffix_) THEN upper(suffix_) ELSE _ensure_dotted_suffixes(suffix_)

\* the end of dumps joining all three parts, empty or not
final_name_unfiltered(self, names, normalized_names_, suffix_) ==
    [ str |-> replace(join(<<",", " ">>,
                           <<last(self), strip(normalized_names_, Whitespace), suffix_>>),
                      "U+2019", <<"'">>),
      warnings |-> IF names = <<>> THEN <<CannotProcess(self.original)>> ELSE <<>>,
      normalized_names |-> normalized_names_,
      suffix |-> suffix_ ]

\* The end of dumps, given its locals normalized_names and suffix: the
\* string, the warnings logged on the way, and the two locals
final_name(self, names, normalized_names_, suffix_) ==
    [ str |-> replace(join(<<",", " ">>,
                           filter_none(<<last(self),
                                         strip(normalized_names_, Whitespace),
                                         suffix_>>)),
                      "U+2019", <<"'">>),
      warnings |-> IF names = <<>> THEN <<CannotProcess(self.original)>> ELSE <<>>,
      normalized_names |-> normalized_names_,
      suffix |-> suffix_ ]

\* dumps with the original string in place of missing given names
dumps_names_with_placeholder(self, names) ==
    final_name(self, names,
               IF names = <<>> THEN self.original
               ELSE normalized_names([i \in 1..Len(names) |-> _ensure_dotted_initials(names[i])]),
               dumps_suffix(suffix(self)))

\* ParsedName.dumps(), given self.first_list
dumps_names(self, names) ==
    final_name(self, names,
               normalized_names([i \in 1..Len(names) |-> _ensure_dotted_initials(names[i])]),
               dumps_suffix(suffix(self)))

dumps(self) == dumps_names(self, first_list(self))

\* ParsedName.pprint(initials_only)
pprint(self, initials_only) ==
    strip((IF initials_only /\ last(self) # <<>> THEN first_initials(self) ELSE first(self))
          \o <<" ">> \o last(self)
          \o (IF suffix(self) # <<>> THEN <<",", " ">> \o suffix(self) ELSE <<>>),
          Whitespace)

\* ParsedName(name) for a HumanName: the name is taken as it is
ParsedName_of(hn) ==
    [ _parsed_name |-> hn,
      original |-> <<>>,
      maybe_only_last_name |->
          LET first_list_ == filter_none(hn.first_list \o hn.middle_list)
          IN /\ ~hn_contains(hn, <<",">>)
             /\ \/ first_list_ = <<>>
                \/ ~contains(first_list_[Len(first_list_)], <<".">>) ]

\* ParsedName.from_parts(first, last, middle, suffix, title)
from_parts(first_, last_, middle_, suffix_, title_) ==
    ParsedName_of([ title_list |-> set_list(title_),
                    first_list |-> set_list(first_),
                    middle_list |-> set_list(middle_),
                    last_list |-> set_list(last_),
                    suffix_list |-> set_list(suffix_) ])

_match_query_with_names_initials_analyzer_with_and_operator(field, value) ==
    [EmptyQuery EXCEPT !.kind = "match", !.field = field, !.query = value,
                       !.operator = "AND", !.analyzer = "names_initials_analyzer"]

_match_query_with_and_operator(field, value) ==
    [EmptyQuery EXCEPT !.kind = "match", !.field = field, !.query = value, !.operator = "AND"]

_match_phrase_prefix_query(field, value) ==
    [EmptyQuery EXCEPT !.kind = "match_phrase_prefix", !.field = field, !.query = value,
                       !.analyzer = "names_analyzer"]

\* {"bool": {"must" or "should": queries}}
bool_clause(queries, use_must_clause) ==
    [EmptyQuery EXCEPT !.kind = IF use_must_clause THEN "bool.must" ELSE "bool.should",
                       !.clauses = queries]

\* the end of the wrapping with a single query wrapped as well
wrap_filtered_always_wrapped(queries, use_must_clause, preserve_bool_semantics_if_one_clause) ==
    bool_clause(queries, use_must_clause)

\* the end of the wrapping with the first query alone in the bool clause
wrap_filtered_first_only(queries, use_must_clause, preserve_bool_semantics_if_one_clause) ==
    IF Len(queries) = 1 /\ ~preserve_bool_semantics_if_one_clause
    THEN queries[1]
    ELSE bool_clause(IF queries = <<>> THEN <<>> ELSE <<queries[1]>>, use_must_clause)

\* "queries = [q for q in queries if q]" and what follows it
wrap_filtered(queries, use_must_clause, preserve_bool_semantics_if_one_clause) ==
    IF Len(queries) = 1 /\ ~preserve_bool_semantics_if_one_clause
    THEN queries[1]
    ELSE bool_clause(queries, use_must_clause)

wrap_queries_in_bool_clauses_if_more_than_one(queries, use_must_clause, preserve_bool_semantics_if_one_clause) ==
    IF queries = <<>> THEN EmptyQuery
    ELSE wrap_filtered(SelectSeq(queries, LAMBDA q : q # EmptyQuery), use_must_clause,
                       preserve_bool_semantics_if_one_clause)

\* {"nested": {"path": keyword, "query": {"bool": {"must": must}}}}
nested_query(keyword, must) ==
    [EmptyQuery EXCEPT !.kind = "nested", !.path = keyword, !.clauses = must]

IsAsciiLetter(c) == (IsLowerChar(c) \/ IsUpperChar(c)) /\ unidecode_char(c) = <<c>>

RECURSIVE re_split_acc(_, _)
re_split_acc(rest, cur) ==
    IF rest = <<>> THEN <<cur>>
    ELSE LET at_dot == /\ Head(rest) = "."
                       /\ \/ Len(rest) = 1
                          \/ IsAsciiLetter(rest[2])
                          \/ rest[2] \in Whitespace
         IN (IF at_dot THEN <<cur>> ELSE <<>>)
            \o re_split_acc(Tail(rest), IF at_dot THEN <<>> ELSE Append(cur, Head(rest)))

\* re.split(r"\.(?=[A-Za-z]|\s|$)", name)
re_split(name) == re_split_acc(name, <<>>)

\* u"{}.last_name".format(keyword) and the like
field_of(keyword, attribute) == keyword \o <<".">> \o attribute

\* the clauses for one first name with the original string on full_name
name_query_with_original(self, keyword, name) ==
    IF Len(name) = 1 \/ contains(name, <<".">>)
    THEN << _match_query_with_names_initials_analyzer_with_and_operator(
                field_of(keyword, <<"f","i","r","s","t","_","n","a","m","e",".","i","n","i","t","i","a","l","s">>),
                name) >>
    ELSE << _match_phrase_prefix_query(
                field_of(keyword, <<"f","i","r","s","t","_","n","a","m","e">>), name),
            _match_query_with_names_initials_analyzer_with_and_operator(
                field_of(keyword, <<"f","i","r","s","t","_","n","a","m","e">>), name) >>
         \o (IF self.maybe_only_last_name
             THEN << _match_query_with_and_operator(
                         field_of(keyword, <<"f","u","l","l","_","n","a","m","e">>),
                         self.original) >>
             ELSE <<>>)

\* the clauses for one first name without the one on full_name
name_query_without_full_name(self, keyword, name) ==
    IF Len(name) = 1 \/ contains(name, <<".">>)
    THEN << _match_query_with_names_initials_analyzer_with_and_operator(
                field_of(keyword, <<"f","i","r","s","t","_","n","a","m","e",".","i","n","i","t","i","a","l","s">>),
                name) >>
    ELSE << _match_phrase_prefix_query(
                field_of(keyword, <<"f","i","r","s","t","_","n","a","m","e">>), name),
            _match_query_with_names_initials_analyzer_with_and_operator(
                field_of(keyword, <<"f","i","r","s","t","_","n","a","m","e">>), name) >>

\* The clauses generate_es_query builds for one first name
name_query(self, keyword, name) ==
    IF Len(name) = 1 \/ contains(name, <<".">>)
    THEN << _match_query_with_names_initials_analyzer_with_and_operator(
                field_of(keyword, <<"f","i","r","s","t","_","n","a","m","e",".","i","n","i","t","i","a","l","s">>),
                name) >>
    ELSE << _match_phrase_prefix_query(
                field_of(keyword, <<"f","i","r","s","t","_","n","a","m","e">>), name),
            _match_query_with_names_initials_analyzer_with_and_operator(
                field_of(keyword, <<"f","i","r","s","t","_","n","a","m","e">>), name) >>
         \o (IF self.maybe_only_last_name
             THEN << _match_query_with_and_operator(
                         field_of(keyword, <<"f","u","l","l","_","n","a","m","e">>),
                         hn_str(self._parsed_name)) >>
             ELSE <<>>)

\* The loop of generate_es_query over first_names
should_query(self, keyword, first_names) ==
    [i \in 1..Len(first_names) |->
        wrap_queries_in_bool_clauses_if_more_than_one(
            name_query(self, keyword, first_names[i]), FALSE, FALSE)]

\* ParsedName.generate_es_query(keyword)
generate_es_query(self, keyword) ==
    IF pn_len(self) = 1 /\ ~contains(first(self), <<".">>)
    THEN nested_query(keyword,
             << _match_query_with_and_operator(
                    field_of(keyword, <<"l","a","s","t","_","n","a","m","e">>), first(self)) >>)
    ELSE nested_query(keyword,
             << _match_query_with_and_operator(
                    field_of(keyword, <<"l","a","s","t","_","n","a","m","e">>), last(self)),
                wrap_queries_in_bool_clauses_if_more_than_one(
                    should_query(self, keyword,
                        filter_none(flatten([i \in 1..Len(first_list(self)) |->
                                                re_split(first_list(self)[i])]))),
                    TRUE, FALSE) >>)

(***************************************************************************)
(* Module-level functions of name.py                                       *)
(***************************************************************************)
_LASTNAME_NON_LASTNAME_SEPARATORS == << <<" ">>, <<",", " ">> >>

_NAMES_MAX_NUMBER_THRESHOLD == 5

\* A result with the warnings logged on the way to it
Logged(result_, warnings_) == [result |-> result_, warnings |-> warnings_]

\* "return ParsedName.loads(name).dumps()", given what loads did
dumps_loaded(loaded) ==
    IF loaded.exc # "" THEN Logged(Raise(loaded.exc), <<>>)
    ELSE Logged(RetStr(dumps(loaded.obj).str), dumps(loaded.obj).warnings)

\* normalize_name without the test for a whitespace-only string
normalize_name_without_isspace(name, shared) ==
    IF ~Truthy(name) THEN Logged(RetNone, <<>>)
    ELSE dumps_loaded(loads(name, shared))

\* normalize_name(name): the result and the warnings logged; an int has no
\* isspace()
normalize_name(name, shared) ==
    IF ~Truthy(name) THEN Logged(RetNone, <<>>)
    ELSE IF ~IsString(name) THEN Logged(Raise("AttributeError"), <<>>)
    ELSE IF isspace(name.chars) THEN Logged(RetNone, <<>>)
    ELSE dumps_loaded(loads(name, shared))

RECURSIVE product(_)
\* itertools.product(*lists): the tuples, the last position varying fastest
product(lists) ==
    IF lists = <<>> THEN << <<>> >>
    ELSE LET rest == product(Tail(lists))
         IN flatten([i \in 1..Len(Head(lists)) |->
                [j \in 1..Len(rest) |-> <<Head(lists)[i]>> \o rest[j]]])

\* The flattening of the cartesian product: the chosen pieces of every
\* variation, the empty ones left out, joined by a space
joined_variations(variations) ==
    [k \in 1..Len(variations) |->
        strip(join(<<" ">>, filter_none(variations[k])), Whitespace)]

\* _generate_non_lastnames_variations without the choice of dropping a name
_generate_non_lastnames_variations_keeping_all(non_lastnames) ==
    IF non_lastnames = <<>> THEN <<>>
    ELSE joined_variations(product([idx \in 1..Len(non_lastnames) |->
             << <<non_lastnames[idx][1]>>, non_lastnames[idx] >>]))

_generate_non_lastnames_variations(non_lastnames) ==
    IF non_lastnames = <<>> THEN <<>>
    ELSE joined_variations(product([idx \in 1..Len(non_lastnames) |->
             << <<>>, <<non_lastnames[idx][1]>>, non_lastnames[idx] >>]))

\* "Generate lastnames concatenation if there are more than one lastname
\* after split."
with_concatenation(split_lastnames) ==
    IF Len(split_lastnames) > 1
    THEN Append(split_lastnames, join(<<" ">>, split_lastnames))
    ELSE split_lastnames

\* _generate_lastnames_variations keeping only the first token on its own
_generate_lastnames_variations_first_only(lastnames) ==
    IF lastnames = <<>> THEN <<>>
    ELSE IF Len(split_all(lastnames, <<"-">>)) > 1
    THEN << split_all(lastnames, <<"-">>)[1], join(<<" ">>, split_all(lastnames, <<"-">>)) >>
    ELSE split_all(lastnames, <<"-">>)

_generate_lastnames_variations(lastnames) ==
    IF lastnames = <<>> THEN <<>>
    ELSE with_concatenation(split_all(lastnames, <<"-">>))

\* One candidate of _update_name_variations_with_product
name_variation(a, separator, b) ==
    lower(unidecode(strip(a \o separator \o b, {" ", ","})))

\* The strings _update_name_variations_with_product adds to name_variations
_update_name_variations_with_product(set_a, set_b) ==
    { name_variation(set_a[i], _LASTNAME_NON_LASTNAME_SEPARATORS[k], set_b[j]) :
        i \in 1..Len(set_a), j \in 1..Len(set_b),
        k \in 1..Len(_LASTNAME_NON_LASTNAME_SEPARATORS) }

NoLocals ==
    [path |-> "", parsed_name |-> NoObj, non_lastnames |-> <<>>, last_list |-> <<>>,
     non_lastnames_variations |-> <<>>, lastnames_variations |-> <<>>,
     normalized_names |-> <<>>, suffix |-> <<>>]

\* A result of generate_name_variations, with the warnings logged and the
\* function's local variables when it returns
Generated(result_, warnings_, locals_) ==
    [result |-> result_, warnings |-> warnings_, locals |-> locals_]

\* The two calls of _update_name_variations_with_product and the return
expand_variations(parsed_name, non_lastnames, non_lastnames_variations, lastnames_variations) ==
    Generated(
        RetList(_update_name_variations_with_product(lastnames_variations, non_lastnames_variations)
                \cup _update_name_variations_with_product(non_lastnames_variations, lastnames_variations),
                Cardinality(
                    _update_name_variations_with_product(lastnames_variations, non_lastnames_variations)
                    \cup _update_name_variations_with_product(non_lastnames_variations, lastnames_variations))),
        <<>>,
        [path |-> "expanded",
         parsed_name |-> parsed_name,
         non_lastnames |-> non_lastnames,
         last_list |-> last_list(parsed_name),
         non_lastnames_variations |-> non_lastnames_variations,
         lastnames_variations |-> lastnames_variations])

\* the guard of generate_name_variations firing from the threshold on
variations_of_names_from_threshold(name, parsed_name, non_lastnames) ==
    IF Len(non_lastnames) >= _NAMES_MAX_NUMBER_THRESHOLD
       \/ Len(last_list(parsed_name)) >= _NAMES_MAX_NUMBER_THRESHOLD
    THEN Generated(RetList({name.chars}, 1), <<Skipping(name.chars)>>,
                   [NoLocals EXCEPT !.path = "skipped",
                                    !.parsed_name = parsed_name,
                                    !.non_lastnames = non_lastnames,
                                    !.last_list = last_list(parsed_name)])
    ELSE expand_variations(parsed_name, non_lastnames,
                           _generate_non_lastnames_variations(non_lastnames),
                           _generate_lastnames_variations(last_list(parsed_name)))

\* generate_name_variations after the single-name case, given the
\* non-lastnames
variations_of_names(name, parsed_name, non_lastnames) ==
    IF Len(non_lastnames) > _NAMES_MAX_NUMBER_THRESHOLD
       \/ Len(last_list(parsed_name)) > _NAMES_MAX_NUMBER_THRESHOLD
    THEN Generated(RetList({name.chars}, 1), <<Skipping(name.chars)>>,
                   [NoLocals EXCEPT !.path = "skipped",
                                    !.parsed_name = parsed_name,
                                    !.non_lastnames = non_lastnames,
                                    !.last_list = last_list(parsed_name)])
    ELSE expand_variations(parsed_name, non_lastnames,
                           _generate_non_lastnames_variations(non_lastnames),
                           _generate_lastnames_variations(last_list(parsed_name)))

\* generate_name_variations once the name is loaded
variations_of_loaded(name, loaded) ==
    IF loaded.exc # "" THEN Generated(Raise(loaded.exc), <<>>, NoLocals)
    ELSE IF pn_len(loaded.obj) = 1
    THEN Generated(RetList({lower(dumps(loaded.obj).str)}, 1),
                   dumps(loaded.obj).warnings,
                   [NoLocals EXCEPT !.path = "single", !.parsed_name = loaded.obj])
    ELSE variations_of_names(name, loaded.obj,
             filter_none(first_list(loaded.obj) \o suffix_list(loaded.obj)))

\* generate_name_variations(name)
generate_name_variations(name, shared) == variations_of_loaded(name, loads(name, shared))

\* format_name once the ParsedName is built: ".loads(name).pprint(...)"
format_loaded(C, initials_only, loaded) ==
    IF loaded.exc # "" THEN [constants |-> C, result |-> Raise(loaded.exc)]
    ELSE [constants |-> C, result |-> RetStr(pprint(loaded.obj, initials_only))]

format_built(name, initials_only, built) ==
    IF built.exc # "" THEN [constants |-> built.constants, result |-> Raise(built.exc)]
    ELSE format_loaded(built.constants, initials_only, loads(name, built.constants))

\* format_name(name, initials_only, without_titles): the shared table as the
\* call leaves it, and the result
format_name(name, initials_only, without_titles, shared) ==
    format_built(name, initials_only, ParsedName_init(name, shared, without_titles))

(***************************************************************************)
(* inspire_utils/record.py: normalize_affiliations and its helpers.  A     *)
(* dict is a function from its keys; a list is a sequence.  A highlighted  *)
(* string of the search index is a sequence of characters in which the     *)
(* tags "<em>" and "</em>" stand as one element each.  None, as a return   *)
(* value that the callers only test for truth, is the empty sequence.      *)
(***************************************************************************)
\* dedupers.dedupe_list(list_with_duplicates)
RECURSIVE dedupe_list_acc(_, _)
dedupe_list_acc(list_with_duplicates, deduped) ==
    IF list_with_duplicates = <<>> THEN deduped
    ELSE dedupe_list_acc(Tail(list_with_duplicates),
                         IF \E i \in 1..Len(deduped) : deduped[i] = Head(list_with_duplicates)
                         THEN deduped
                         ELSE Append(deduped, Head(list_with_duplicates)))

dedupe_list(list_with_duplicates) == dedupe_list_acc(list_with_duplicates, <<>>)

\* get_value(author, "raw_affiliations.value", []): the values of the raw
\* affiliations that have one, or the default when the author has no
\* raw_affiliations key
get_value_raw_affiliations_value(author) ==
    IF "raw_affiliations" \notin DOMAIN author THEN <<>>
    ELSE LET with_value == SelectSeq(author.raw_affiliations,
                                     LAMBDA raw : "value" \in DOMAIN raw)
         IN [i \in 1..Len(with_value) |-> with_value[i].value]

\* author.get("affiliations", [])
get_affiliations(author) ==
    IF "affiliations" \in DOMAIN author THEN author.affiliations ELSE <<>>

\* _clean_up_affiliation_data(affiliations)
_clean_up_affiliation_data(affiliations) ==
    [i \in 1..Len(affiliations) |->
        [key \in DOMAIN affiliations[i] \cap {"value", "record"} |-> affiliations[i][key]]]

\* re.findall(r"<em>(.*?)</em>", highlighted_raw_aff)
RECURSIVE findall_em(_)
findall_em(highlighted_raw_aff) ==
    IF \A i \in 1..Len(highlighted_raw_aff) : highlighted_raw_aff[i] # "<em>" THEN <<>>
    ELSE LET open == CHOOSE i \in 1..Len(highlighted_raw_aff) :
                         /\ highlighted_raw_aff[i] = "<em>"
                         /\ \A j \in 1..(i - 1) : highlighted_raw_aff[j] # "<em>"
         IN IF \A i \in (open + 1)..Len(highlighted_raw_aff) : highlighted_raw_aff[i] # "</em>"
            THEN <<>>
            ELSE LET close == CHOOSE i \in (open + 1)..Len(highlighted_raw_aff) :
                                  /\ highlighted_raw_aff[i] = "</em>"
                                  /\ \A j \in (open + 1)..(i - 1) :
                                         highlighted_raw_aff[j] # "</em>"
                 IN <<SubSeq(highlighted_raw_aff, open + 1, close - 1)>>
                    \o findall_em(SubSeq(highlighted_raw_aff, close + 1,
                                         Len(highlighted_raw_aff)))

\* _raw_aff_highlight_len(highlighted_raw_aff)
_raw_aff_highlight_len(highlighted_raw_aff) == Len(flatten(findall_em(highlighted_raw_aff)))

\* re.sub("<em>|</em>", "", highlighted_raw_aff)
sub_em(highlighted_raw_aff) ==
    SelectSeq(highlighted_raw_aff, LAMBDA c : c \notin {"<em>", "</em>"})

\* The first of the author's affiliations whose raw affiliation is the
\* extracted one, in a list, or None
first_zipped(extracted_raw_aff, author_raw_affs, author_affs) ==
    LET zipped == { i \in 1..Len(author_raw_affs) :
                        /\ i <= Len(author_affs)
                        /\ author_raw_affs[i].value = extracted_raw_aff }
    IN IF zipped = {} THEN <<>>
       ELSE <<author_affs[CHOOSE i \in zipped : \A j \in zipped : i <= j]>>

\* _extract_matched_aff_from_highlight(highlighted_raw_affs, author_raw_affs, author_affs)
_extract_matched_aff_from_highlight(highlighted_raw_affs, author_raw_affs, author_affs) ==
    LET longest_highlight_idx ==
            CHOOSE i \in 1..Len(highlighted_raw_affs) :
                /\ \A j \in 1..Len(highlighted_raw_affs) :
                       _raw_aff_highlight_len(highlighted_raw_affs[j])
                           <= _raw_aff_highlight_len(highlighted_raw_affs[i])
                /\ \A j \in 1..(i - 1) :
                       _raw_aff_highlight_len(highlighted_raw_affs[j])
                           < _raw_aff_highlight_len(highlighted_raw_affs[i])
    IN first_zipped(sub_em(highlighted_raw_affs[longest_highlight_idx]),
                    author_raw_affs, author_affs)

\* The matched_aff that _find_unambiguous_affiliation computes for one hit
matched_aff_of(matched_author) ==
    IF Len(matched_author.raw_affiliations) = 1
    THEN matched_author.affiliations
    ELSE IF Len(matched_author.raw_affiliations) = Len(matched_author.affiliations)
    THEN _extract_matched_aff_from_highlight(matched_author.highlight,
                                             matched_author.raw_affiliations,
                                             matched_author.affiliations)
    ELSE <<>>

\* _find_unambiguous_affiliation(result, wf_id): the cleaned affiliations
\* of the first hit that has a match, or None
RECURSIVE _find_unambiguous_affiliation(_)
_find_unambiguous_affiliation(hits) ==
    IF hits = <<>> THEN <<>>
    ELSE IF matched_aff_of(Head(hits)) # <<>>
    THEN _clean_up_affiliation_data(matched_aff_of(Head(hits)))
    ELSE _find_unambiguous_affiliation(Tail(hits))

(***************************************************************************)
(* The arguments the callers pass.                                         *)
(***************************************************************************)
\* The longest name built from every combination of the short vocabulary
MaxWords == 3

\* The most surname tokens, and the most given-name tokens, of a long name
MaxLast == 6

MaxGiven == 6

ShortVocab ==
    << <<"S","i","r">>, <<"E","l","l","i","s">>, <<"J","o","h","n">>,
       <<"R",".">>, <<"J","r">> >>

Separators == { <<" ">>, <<",", " ">> }

ShortName(n, ws, ss) ==
    flatten([i \in 1..n |-> (IF i > 1 THEN ss[i - 1] ELSE <<>>) \o ShortVocab[ws[i]]])

ShortNames ==
    UNION { { ShortName(n, ws, ss) :
                ws \in [1..n -> 1..Len(ShortVocab)], ss \in [1..(n - 1) -> Separators] } :
            n \in 1..MaxWords }

Surnames ==
    << <<"L","e","e">>, <<"K","i","m">>, <<"R","o","e">>, <<"P","o","e">>,
       <<"H","a","y">>, <<"F","o","x">>, <<"C","o","x">>, <<"E","l","l","i","s">> >>

Givens ==
    << <<"J","o","h","n">>, <<"R",".">>, <<"U+00C9","l","i">>, <<"J">>,
       <<"D","a","n">>, <<"A","n","n">>, <<"T","o","m">>, <<"B","o","b">> >>

Cycle(words, n) == [i \in 1..n |-> words[((i - 1) % Len(words)) + 1]]

\* "Lee Kim, John R. U+00C9li": m surnames, a comma, n given names
LongName(m, n) ==
    join(<<" ">>, Cycle(Surnames, m)) \o <<",", " ">> \o join(<<" ">>, Cycle(Givens, n))

\* "John R. U+00C9li Lee": n given names and a surname, no comma
LongNameNoComma(n) == join(<<" ">>, Append(Cycle(Givens, n), Surnames[1]))

LongNames ==
    { LongName(m, n) : m \in 1..MaxLast, n \in 1..MaxGiven }
    \cup { LongNameNoComma(n) : n \in 1..MaxGiven }

SpecialNames ==
    { <<"C","a","r","o","-","E","s","t","U+00E9","v","e","z"," ","L","e","e",","," ","D","a","n">>,
      <<"-","L","e","e",","," ","D","a","n">>,
      <<"L","e","e","-","-","K","i","m",","," ","J">>,
      <<"K","i","m","-","L","e","e","-","K","i","m","-","L","e","e","-","K","i","m","-","L","e","e",","," ","J">>,
      <<"m","e","l","e",","," ","j","o","h","n">>,
      <<"E","L","L","I","S",","," ","J","O","H","N"," ","V","I">>,
      <<"U+00C9","l","l","i","s">>,
      <<"U+857E">>,
      <<"U+857E",","," ","D","a","n">>,
      <<"E","l","l","i","s",",",","," ","J","o","h","n">>,
      <<","," ","J","o","h","n"," ","D","a","n">>,
      <<"M","U+2019","K","i","m",","," ","D","a","n">>,
      <<"J">>,
      <<" ","E","l","l","i","s",","," ","J","o","h","n","\t"," ","R"," ">>,
      <<"L","e","e"," ","K","i","m"," ","R","o","e"," ","P","o","e"," ","H","a","y"," ","F","o","x",",",",">>,
      <<"E","l","l","i","s",","," ","J"," ","P">>,
      <<"E","l","l","i","s",","," ","J",".","P",".">>,
      <<"E","l","l","i","s",",",",">>,
      <<"P","r","o","f","f","e","s","o","r",".","M",".">>,
      <<"E","l","l","i","s",","," ","J","o","h","n"," ","i","i","i">>,
      <<"R",".","J","o","h","n"," ","E","l","l","i","s">>,
      <<"e","d"," ","w","i","t","t","e","n">>,
      <<"Z","h","a","o","-","Y","u"," ","Y","i","n">>,
      <<"E","l","l","i","s",","," ","D",".","K",".">>,
      <<"D",".","J","o","h","n"," ","E","l","l","i","s">>,
      <<"E","l","l","i","s",","," ","J",".","U+00C9","l","i">>,
      <<"E","l","l","i","s",","," ","J","o","h","n"," ","R","."," ","D","a","n"," ","A","n","n"," ","T","o","m",","," ","J","r">> }

BlankNames == { <<>>, <<" ">>, <<" ", "\t">> }

\* The parts from_parts is called with: each is None or a string
Parts ==
    [ first : {PyNone, PyStr(<<"J","o","h","n">>), PyStr(<<"R",".">>)},
      last : {PyNone, PyStr(<<"E","l","l","i","s">>)},
      middle : {PyNone, PyStr(<<"R",".">>)},
      suffix : {PyNone, PyStr(<<"J","r">>)},
      title : {PyNone, PyStr(<<"S","i","r">>)} ]

NoParts == [first |-> PyNone, last |-> PyNone, middle |-> PyNone, suffix |-> PyNone,
            title |-> PyNone]

\* The values of generate_es_query's keyword
Keywords ==
    { <<"a","u","t","h","o","r","s">>,
      <<"f","i","r","s","t","_","a","u","t","h","o","r">> }

\* The longest list of queries to wrap
MaxQueries == 3

\* The queries to wrap: the empty dict and two clauses
Queries ==
    { EmptyQuery,
      _match_query_with_and_operator(<<"a","u","t","h","o","r","s",".","l","a","s","t","_","n","a","m","e">>, <<"E","l","l","i","s">>),
      _match_phrase_prefix_query(<<"a","u","t","h","o","r","s",".","f","i","r","s","t","_","n","a","m","e">>, <<"J","o","h","n">>) }

QueryLists == UNION { [1..n -> Queries] : n \in 0..MaxQueries }

Names ==
    { PyStr(s) : s \in ShortNames \cup LongNames \cup SpecialNames \cup BlankNames }
    \cup { PyNone, PyInt(<<"7">>), PyInt(<<"0">>) }

\* The most authors of a record, and the most raw affiliations of an author
MaxAuthors == 2
MaxRawAffs == 2

CERN == <<"C","E","R","N">>
DESY == <<"D","E","S","Y">>
RawAffs == {CERN, DESY}

\* Affiliations as a record holds them, and as the search index holds them
\* (with a key more)
AffCERN == [value |-> "CERN", record |-> "902725"]
AffDESY == [value |-> "DESY", record |-> "902770"]
IndexedCERN == [value |-> "CERN", record |-> "902725", curated_relation |-> "true"]
IndexedDESY == [value |-> "DESY", record |-> "902770", curated_relation |-> "true"]

\* The raw affiliations of an author: none, or up to MaxRawAffs of them.
\* The code treats all raw affiliations alike, so the first one is fixed.
RawAffLists ==
    { raw_affs \in UNION { [1..n -> RawAffs] : n \in 0..MaxRawAffs } :
          raw_affs # <<>> => raw_affs[1] = CERN }

raw_affiliations_of(raw_affs) == [i \in 1..Len(raw_affs) |-> [value |-> raw_affs[i]]]

\* Authors: without the affiliations key, with an empty affiliations list,
\* with an affiliation, and without any of the two keys
Authors ==
    { [raw_affiliations |-> raw_affiliations_of(raw_affs)] : raw_affs \in RawAffLists }
    \cup { [affiliations |-> <<>>, raw_affiliations |-> raw_affiliations_of(raw_affs)]
           : raw_affs \in RawAffLists }
    \cup { [affiliations |-> <<AffCERN>>, raw_affiliations |-> raw_affiliations_of(<<DESY>>)],
           [full_name |-> "Ellis, John"] }

\* Records: with up to MaxAuthors authors, and without the authors key
Records ==
    { [authors |-> authors] : authors \in UNION { [1..n -> Authors] : n \in 0..MaxAuthors } }
    \cup { [control_number |-> "1"] }

\* Hits of the search index: an author with one raw affiliation; one with
\* two raw affiliations of which the second is highlighted longest; one
\* with more raw affiliations than affiliations; one whose longest
\* highlight is a fragment of no raw affiliation
HitOne ==
    [control_number |-> "11", raw_affiliations |-> raw_affiliations_of(<<CERN>>),
     affiliations |-> <<IndexedCERN>>,
     highlight |-> << <<"<em>","C","E","R","N","</em>">> >>]
HitTwo ==
    [control_number |-> "12", raw_affiliations |-> raw_affiliations_of(<<CERN, DESY>>),
     affiliations |-> <<IndexedCERN, IndexedDESY>>,
     highlight |-> << <<"<em>","C","E","</em>","R","N">>,
                      <<"<em>","D","E","</em>","<em>","S","Y","</em>">> >>]
HitUneven ==
    [control_number |-> "13", raw_affiliations |-> raw_affiliations_of(<<CERN, DESY>>),
     affiliations |-> <<IndexedCERN>>,
     highlight |-> << <<"<em>","C","E","R","N","</em>">> >>]
HitFragment ==
    [control_number |-> "14", raw_affiliations |-> raw_affiliations_of(<<CERN, DESY>>),
     affiliations |-> <<IndexedCERN, IndexedDESY>>,
     highlight |-> << <<"<em>","D","E","S","</em>">> >>]

\* What a search of the index may return
SearchResults == { <<>>, <<HitOne>>, <<HitTwo>>, <<HitUneven, HitOne>>, <<HitFragment>> }

(***************************************************************************)
(* The state machine: a caller invokes one public function at a time on    *)
(* the shared table.                                                       *)
(***************************************************************************)
VARIABLES
    constants,  \* ParsedName.constants, the process-wide table
    pc,         \* "idle", "called" (a call is running) or "returned"
    call,       \* the running or last call: function or method, receiver, arguments
    result,     \* what the call returned or raised
    warnings,   \* the LOGGER.warning calls the call made
    locals,     \* generate_name_variations' local variables at its return
    data,       \* the record handed to normalize_affiliations, as it is now
    frame,      \* normalize_affiliations' position and local variables
    lookups     \* the raw affiliations looked up so far, searched or not

vars == <<constants, pc, call, result, warnings, locals>>
affvars == <<data, frame, lookups>>

NoFrame ==
    [pc |-> "idle",                    \* "idle", "authors", "raw_affs" or "returned"
     called_with |-> [control_number |-> "1"],  \* data as it was at the call
     author |-> 0,                     \* position of the loop over the authors
     raw_aff |-> 0,                    \* position of the loop over raw_affs
     author_affiliations |-> <<>>,
     is_authors_list |-> FALSE,        \* author_affiliations is the list in data
     raw_affs |-> <<>>,
     matched_affiliations |-> <<>>,    \* a dict: raw affiliation -> affiliations
     normalized_affiliations |-> <<>>,
     ambiguous_affiliations |-> <<>>]

NoCall ==
    [op |-> "", name |-> PyNone, initials_only |-> FALSE, without_titles |-> FALSE,
     parts |-> NoParts, method |-> "", self |-> NoObj, keyword |-> <<>>,
     queries |-> <<>>, use_must_clause |-> FALSE,
     preserve_bool_semantics_if_one_clause |-> FALSE]

Init ==
    /\ constants = _prepare_nameparser_constants
    /\ pc = "idle"
    /\ call = NoCall
    /\ result = NoResult
    /\ warnings = <<>>
    /\ locals = NoLocals
    /\ data = NoFrame.called_with
    /\ frame = NoFrame
    /\ lookups = <<>>

\* The caller starts a call of a public function.
Invoke ==
    /\ pc = "idle"
    /\ \E name \in Names :
        \/ \E op \in {"loads", "normalize_name", "generate_name_variations"} :
              call' = [NoCall EXCEPT !.op = op, !.name = name]
        \/ \E wt \in BOOLEAN :
              call' = [NoCall EXCEPT !.op = "ParsedName", !.name = name, !.without_titles = wt]
        \/ \E io \in BOOLEAN, wt \in BOOLEAN :
              call' = [NoCall EXCEPT !.op = "format_name", !.name = name,
                                     !.initials_only = io, !.without_titles = wt]
    /\ pc' = "called"
    /\ UNCHANGED <<constants, result, warnings, locals, affvars>>

\* The call returns or raises: what it leaves behind
Returns(constants_, result_, warnings_, locals_) ==
    /\ constants' = constants_
    /\ result' = result_
    /\ warnings' = warnings_
    /\ locals' = locals_
    /\ pc' = "returned"
    /\ UNCHANGED <<call, affvars>>

Built(built) ==
    Returns(built.constants,
            IF built.exc # "" THEN Raise(built.exc) ELSE RetObj(built.obj),
            warnings, locals)

\* ParsedName(name, without_titles=...)
ParsedNameNew ==
    /\ pc = "called" /\ call.op = "ParsedName"
    /\ Built(ParsedName_init(call.name, constants, call.without_titles))

Loaded(loaded) ==
    Returns(constants,
            IF loaded.exc # "" THEN Raise(loaded.exc) ELSE RetObj(loaded.obj),
            warnings, locals)

\* ParsedName.loads(name)
Loads ==
    /\ pc = "called" /\ call.op = "loads"
    /\ Loaded(loads(call.name, constants))

Normalized(done) == Returns(constants, done.result, done.warnings, locals)

\* normalize_name(name)
NormalizeName ==
    /\ pc = "called" /\ call.op = "normalize_name"
    /\ Normalized(normalize_name(call.name, constants))

Varied(done) == Returns(constants, done.result, done.warnings, done.locals)

\* generate_name_variations(name)
GenerateNameVariations ==
    /\ pc = "called" /\ call.op = "generate_name_variations"
    /\ Varied(generate_name_variations(call.name, constants))

Formatted(done) == Returns(done.constants, done.result, warnings, locals)

\* format_name(name, initials_only, without_titles)
FormatName ==
    /\ pc = "called" /\ call.op = "format_name"
    /\ Formatted(format_name(call.name, call.initials_only, call.without_titles, constants))

\* The caller starts a call of ParsedName.from_parts.
InvokeFromParts ==
    /\ pc = "idle"
    /\ \E parts \in Parts : call' = [NoCall EXCEPT !.op = "from_parts", !.parts = parts]
    /\ pc' = "called"
    /\ UNCHANGED <<constants, result, warnings, locals, affvars>>

\* ParsedName.from_parts(first, last, middle, suffix, title)
FromParts ==
    /\ pc = "called" /\ call.op = "from_parts"
    /\ Returns(constants,
               RetObj(from_parts(call.parts.first, call.parts.last, call.parts.middle,
                                 call.parts.suffix, call.parts.title)),
               warnings, locals)

\* The caller holds a ParsedName it has just built, from a string with the
\* titles in place or from parts, and has called no method of it yet
HoldsParsedName ==
    /\ pc = "returned"
    /\ result.kind = "ParsedName"
    /\ call.method = ""
    /\ \/ call.op = "from_parts"
       \/ call.op = "ParsedName" /\ ~call.without_titles

\* A method of the ParsedName returns
MethodReturns(method, keyword, result_, warnings_, locals_) ==
    /\ call' = [call EXCEPT !.method = method, !.self = result.obj, !.keyword = keyword]
    /\ result' = result_
    /\ warnings' = warnings_
    /\ locals' = locals_
    /\ UNCHANGED <<constants, pc, affvars>>

Dumped(done) ==
    MethodReturns("dumps", <<>>, RetStr(done.str), done.warnings,
                  [NoLocals EXCEPT !.normalized_names = done.normalized_names,
                                   !.suffix = done.suffix])

\* parsed_name.dumps()
Dumps ==
    /\ HoldsParsedName
    /\ Dumped(dumps(result.obj))

\* parsed_name.generate_es_query(keyword)
GenerateEsQuery ==
    /\ HoldsParsedName
    /\ \E keyword \in Keywords :
          MethodReturns("generate_es_query", keyword,
                        RetQuery(generate_es_query(result.obj, keyword)), warnings, locals)

\* The caller starts a call of wrap_queries_in_bool_clauses_if_more_than_one.
InvokeWrapQueries ==
    /\ pc = "idle"
    /\ \E queries \in QueryLists, use_must_clause \in BOOLEAN, preserve \in BOOLEAN :
          call' = [NoCall EXCEPT !.op = "wrap_queries_in_bool_clauses_if_more_than_one",
                                 !.queries = queries,
                                 !.use_must_clause = use_must_clause,
                                 !.preserve_bool_semantics_if_one_clause = preserve]
    /\ pc' = "called"
    /\ UNCHANGED <<constants, result, warnings, locals, affvars>>

\* wrap_queries_in_bool_clauses_if_more_than_one(queries, use_must_clause,
\* preserve_bool_semantics_if_one_clause)
WrapQueries ==
    /\ pc = "called" /\ call.op = "wrap_queries_in_bool_clauses_if_more_than_one"
    /\ Returns(constants,
               RetQuery(wrap_queries_in_bool_clauses_if_more_than_one(
                            call.queries, call.use_must_clause,
                            call.preserve_bool_semantics_if_one_clause)),
               warnings, locals)

\* The caller takes the result; the table stays as the call left it.
Return ==
    /\ pc = "returned"
    /\ pc' = "idle"
    /\ call' = NoCall
    /\ result' = NoResult
    /\ warnings' = <<>>
    /\ locals' = NoLocals
    /\ UNCHANGED <<constants, affvars>>

Next ==
    \/ Invoke
    \/ InvokeFromParts
    \/ FromParts
    \/ Dumps
    \/ GenerateEsQuery
    \/ ParsedNameNew
    \/ Loads
    \/ NormalizeName
    \/ GenerateNameVariations
    \/ FormatName
    \/ InvokeWrapQueries
    \/ WrapQueries
    \/ Return

Spec == Init /\ [][Next]_vars

(***************************************************************************)
(* normalize_affiliations, step by step: the record the caller holds, the  *)
(* function's local variables, and the lookups it has made.                *)
(***************************************************************************)
\* data.get("authors", [])
get_authors(record) == IF "authors" \in DOMAIN record THEN record.authors ELSE <<>>

\* a test that finds no raw affiliation in matched_affiliations
is_matched_never(raw_aff, matched_affiliations) == FALSE

\* raw_aff in matched_affiliations
is_matched(raw_aff, matched_affiliations) == raw_aff \in DOMAIN matched_affiliations

\* matched_affiliations[raw_aff] = matched_author_affiliations
set_item(matched_affiliations, raw_aff, matched_author_affiliations) ==
    [key \in DOMAIN matched_affiliations \cup {raw_aff} |->
        IF key = raw_aff THEN matched_author_affiliations ELSE matched_affiliations[key]]

\* The caller calls normalize_affiliations(data, literature_search_object).
InvokeNormalizeAffiliations ==
    /\ frame.pc = "idle"
    /\ \E record \in Records :
          /\ data' = record
          /\ frame' = [NoFrame EXCEPT !.pc = "authors", !.called_with = record, !.author = 1]
    /\ lookups' = <<>>
    /\ UNCHANGED vars

\* The loop takes an author that has affiliations: they are appended as
\* they are.
AuthorWithAffiliations ==
    /\ frame.pc = "authors"
    /\ frame.author <= Len(get_authors(data))
    /\ get_affiliations(get_authors(data)[frame.author]) # <<>>
    /\ frame' = [frame EXCEPT
                    !.author = @ + 1,
                    !.normalized_affiliations =
                        Append(@, get_affiliations(get_authors(data)[frame.author]))]
    /\ UNCHANGED <<data, lookups, vars>>

\* The loop takes an author without affiliations and starts on its raw
\* affiliations.
AuthorWithoutAffiliations ==
    /\ frame.pc = "authors"
    /\ frame.author <= Len(get_authors(data))
    /\ get_affiliations(get_authors(data)[frame.author]) = <<>>
    /\ frame' = [frame EXCEPT
                    !.pc = "raw_affs",
                    !.author_affiliations = <<>>,
                    !.is_authors_list = "affiliations" \in DOMAIN get_authors(data)[frame.author],
                    !.raw_affs = get_value_raw_affiliations_value(get_authors(data)[frame.author]),
                    !.raw_aff = 1]
    /\ UNCHANGED <<data, lookups, vars>>

\* author_affiliations.extend(affiliations): the list grows, and with it
\* the author's own list when author_affiliations is that list
Extended(affiliations) ==
    IF frame.is_authors_list
    THEN [data EXCEPT !.authors[frame.author].affiliations = @ \o affiliations]
    ELSE data

\* The raw affiliation has been matched before: its affiliations are taken
\* from matched_affiliations.
MatchedBefore ==
    /\ frame.pc = "raw_affs"
    /\ frame.raw_aff <= Len(frame.raw_affs)
    /\ is_matched(frame.raw_affs[frame.raw_aff], frame.matched_affiliations)
    /\ frame' = [frame EXCEPT
                    !.raw_aff = @ + 1,
                    !.author_affiliations =
                        @ \o frame.matched_affiliations[frame.raw_affs[frame.raw_aff]]]
    /\ data' = Extended(frame.matched_affiliations[frame.raw_affs[frame.raw_aff]])
    /\ lookups' = Append(lookups,
                         [raw_aff |-> frame.raw_affs[frame.raw_aff], author |-> frame.author,
                          searched |-> FALSE,
                          affiliations |->
                              frame.matched_affiliations[frame.raw_affs[frame.raw_aff]]])
    /\ UNCHANGED vars

\* What the search for raw_aff leaves when it found matched_author_affiliations
Searched(raw_aff, matched_author_affiliations) ==
    /\ frame' = IF matched_author_affiliations # <<>>
                THEN [frame EXCEPT
                         !.raw_aff = @ + 1,
                         !.matched_affiliations =
                             set_item(@, raw_aff, matched_author_affiliations),
                         !.author_affiliations = @ \o matched_author_affiliations]
                ELSE [frame EXCEPT
                         !.raw_aff = @ + 1,
                         !.ambiguous_affiliations = Append(@, raw_aff)]
    /\ data' = Extended(matched_author_affiliations)
    /\ lookups' = Append(lookups,
                         [raw_aff |-> raw_aff, author |-> frame.author, searched |-> TRUE,
                          affiliations |-> matched_author_affiliations])

\* The raw affiliation has not been matched before: the index is searched
\* and answers with any of its results.
SearchAffiliation ==
    /\ frame.pc = "raw_affs"
    /\ frame.raw_aff <= Len(frame.raw_affs)
    /\ ~is_matched(frame.raw_affs[frame.raw_aff], frame.matched_affiliations)
    /\ \E hits \in SearchResults :
          Searched(frame.raw_affs[frame.raw_aff], _find_unambiguous_affiliation(hits))
    /\ UNCHANGED vars

\* The raw affiliations of the author are done: the deduplicated
\* affiliations are appended.
AuthorDone ==
    /\ frame.pc = "raw_affs"
    /\ frame.raw_aff > Len(frame.raw_affs)
    /\ frame' = [frame EXCEPT
                    !.pc = "authors",
                    !.author = @ + 1,
                    !.normalized_affiliations = Append(@, dedupe_list(frame.author_affiliations))]
    /\ UNCHANGED <<data, lookups, vars>>

\* The authors are done: normalize_affiliations returns
\* (normalized_affiliations, ambiguous_affiliations).
ReturnAffiliations ==
    /\ frame.pc = "authors"
    /\ frame.author > Len(get_authors(data))
    /\ frame' = [frame EXCEPT !.pc = "returned"]
    /\ UNCHANGED <<data, lookups, vars>>

\* The caller takes the result.
TakeAffiliations ==
    /\ frame.pc = "returned"
    /\ frame' = NoFrame
    /\ data' = NoFrame.called_with
    /\ lookups' = <<>>
    /\ UNCHANGED vars

NextAffiliations ==
    \/ InvokeNormalizeAffiliations
    \/ AuthorWithAffiliations
    \/ AuthorWithoutAffiliations
    \/ MatchedBefore
    \/ SearchAffiliation
    \/ AuthorDone
    \/ ReturnAffiliations
    \/ TakeAffiliations

SpecAffiliations == Init /\ [][NextAffiliations]_<<vars, affvars>>

(***************************************************************************)
(* Properties.                                                             *)
(***************************************************************************)
\* The call of the public function op has returned or raised
ReturnedFrom(op) == pc = "returned" /\ call.op = op

\* A string that is empty or made of whitespace only
IsBlank(name) == IsString(name) /\ \A i \in 1..Len(name.chars) : name.chars[i] \in Whitespace

\* What a ParsedName shows through its properties
Fields(self) ==
    [ title |-> hn_title(self._parsed_name),
      first_list |-> first_list(self),
      last_list |-> last_list(self),
      suffix_list |-> suffix_list(self),
      maybe_only_last_name |-> self.maybe_only_last_name ]

Range(seq) == { seq[i] : i \in 1..Len(seq) }

\* C1: no call mutates the process-wide parser constants: whatever calls were
\* made, ParsedName.constants holds the titles, suffixes and roman numerals
\* it was built with at class-load time.
C1_ConstantsNeverMutated == constants = _prepare_nameparser_constants

\* C2: parsing is history-independent: what loads, normalize_name,
\* generate_name_variations and format_name (without_titles false) return for
\* a name is what they return under the table built at class-load time,
\* whatever calls were made before.
C2_ParsingHistoryIndependent ==
    /\ ReturnedFrom("loads") =>
          /\ result.exc = loads(call.name, _prepare_nameparser_constants).exc
          /\ Fields(result.obj) = Fields(loads(call.name, _prepare_nameparser_constants).obj)
    /\ ReturnedFrom("normalize_name") =>
          result = normalize_name(call.name, _prepare_nameparser_constants).result
    /\ ReturnedFrom("generate_name_variations") =>
          result = generate_name_variations(call.name, _prepare_nameparser_constants).result
    /\ (ReturnedFrom("format_name") /\ ~call.without_titles) =>
          result = format_name(call.name, call.initials_only, FALSE,
                               _prepare_nameparser_constants).result

C4_NormalizeName ==
    (ReturnedFrom("normalize_name") /\ call.name.type \in {"str", "NoneType"}) =>
        IF call.name = PyNone \/ IsBlank(call.name)
        THEN result = RetNone
        ELSE /\ loads(call.name, constants).exc = ""
             /\ result = RetStr(dumps(loads(call.name, constants).obj).str)

\* normalize_name has returned the normal form of a name with stray
\* whitespace
C4_Witness ==
    /\ ReturnedFrom("normalize_name")
    /\ call.name = PyStr(<<" ","E","l","l","i","s",","," ","J","o","h","n","\t"," ","R"," ">>)
    /\ result = RetStr(<<"E","l","l","i","s",","," ","J","o","h","n"," ","R",".">>)

\* The tokens of the parsed name that are no last names
NonLastNameTokens(parsed_name) ==
    filter_none(first_list(parsed_name) \o suffix_list(parsed_name))

\* C5: whenever the parsed name has more than 5 non-last-name tokens or more
\* than 5 last-name tokens, generate_name_variations expands nothing, logs a
\* warning and returns exactly [raw], the input unmodified.
C5_ExplosionGuard ==
    ( /\ ReturnedFrom("generate_name_variations")
      /\ result.kind = "list"
      /\ \/ Len(NonLastNameTokens(locals.parsed_name)) > 5
         \/ Len(last_list(locals.parsed_name)) > 5 ) =>
        /\ result = RetList({call.name.chars}, 1)
        /\ \E i \in 1..Len(warnings) : warnings[i] = Skipping(call.name.chars)
        /\ locals.non_lastnames_variations = <<>>
        /\ locals.lastnames_variations = <<>>

\* C6: the size of the result is bounded by the threshold 5: on the expansion
\* path at most 3^5 given-name variations G and at most 5+1 surname
\* variations S, hence at most 2*2*|S|*|G| strings; on every other path
\* exactly one string.
C6_BoundedResult ==
    (ReturnedFrom("generate_name_variations") /\ result.kind = "list") =>
        IF locals.path = "expanded"
        THEN /\ Len(locals.non_lastnames_variations) <= 3 ^ 5
             /\ Len(locals.lastnames_variations) <= 5 + 1
             /\ result.len <= 2 * 2 * Len(locals.lastnames_variations)
                                    * Len(locals.non_lastnames_variations)
        ELSE result.len = 1

\* generate_name_variations has returned for a name with one undashed
\* surname token, between one and five given-name tokens and no suffix
OneSurnameCase ==
    /\ ReturnedFrom("generate_name_variations")
    /\ result.kind = "list"
    /\ Len(last_list(locals.parsed_name)) = 1
    /\ last_list(locals.parsed_name)[1] # <<>>
    /\ ~contains(last_list(locals.parsed_name)[1], <<"-">>)
    /\ filter_none(suffix_list(locals.parsed_name)) = <<>>
    /\ Len(first_list(locals.parsed_name)) \in 1..5

\* The given names of one choice of {dropped, first character, full token}
\* per token, the kept pieces joined in order by single spaces
Chosen(tokens, choice) ==
    join(<<" ">>,
         filter_none([i \in 1..Len(tokens) |->
             CASE choice[i] = "dropped" -> <<>>
               [] choice[i] = "first character" -> <<tokens[i][1]>>
               [] OTHER -> tokens[i]]))

Choices(tokens) == [1..Len(tokens) -> {"dropped", "first character", "full token"}]

\* Trimmed of spaces and commas and lower-cased
TrimmedLowered(s) == lower(strip(s, {" ", ","}))

\* Trimmed of spaces and commas, transliterated by unidecode and lower-cased
TrimmedFoldedLowered(s) == lower(unidecode(strip(s, {" ", ","})))

\* C7, as stated: for one undashed surname L and given names g1..gn
\* (1 <= n <= 5, no suffix) the result is exactly the set of L+sep+g and
\* g+sep+L, over every choice g and sep in {' ', ', '}, each trimmed of
\* spaces and commas and lower-cased.
C7_VariationsTrimmedLowered ==
    OneSurnameCase =>
        result.elems =
            UNION { { TrimmedLowered(last_list(locals.parsed_name)[1] \o sep
                                     \o Chosen(first_list(locals.parsed_name), choice)),
                      TrimmedLowered(Chosen(first_list(locals.parsed_name), choice) \o sep
                                     \o last_list(locals.parsed_name)[1]) } :
                    choice \in Choices(first_list(locals.parsed_name)),
                    sep \in {<<" ">>, <<",", " ">>} }

\* C7, amended: for one undashed surname L and given names g1..gn
\* (1 <= n <= 5, no suffix) the result is exactly the set of L+sep+g and
\* g+sep+L, over every choice g and sep in {' ', ', '}, each trimmed of
\* spaces and commas, transliterated to ASCII by unidecode and lower-cased.
C7_VariationsTrimmedFoldedLowered ==
    OneSurnameCase =>
        /\ result.elems =
            UNION { { TrimmedFoldedLowered(last_list(locals.parsed_name)[1] \o sep
                                     \o Chosen(first_list(locals.parsed_name), choice)),
                      TrimmedFoldedLowered(Chosen(first_list(locals.parsed_name), choice) \o sep
                                     \o last_list(locals.parsed_name)[1]) } :
                    choice \in Choices(first_list(locals.parsed_name)),
                    sep \in {<<" ">>, <<",", " ">>} }
        /\ result.len = Cardinality(result.elems)

\* The variations of "Lee, John R. U+00C9li" have been returned, the surname
\* alone among them
C7_Witness ==
    /\ OneSurnameCase
    /\ call.name = PyStr(<<"L","e","e",","," ","J","o","h","n"," ","R","."," ","U+00C9","l","i">>)
    /\ <<"l","e","e">> \in result.elems
    /\ <<"l","e","e",","," ","j"," ","r","."," ","e","l","i">> \in result.elems

C9_VariationsClean ==
    (ReturnedFrom("generate_name_variations") /\ locals.path = "expanded") =>
        /\ \A s \in result.elems :
              /\ s = lower(s)
              /\ IsAscii(s)
              /\ s # <<>> => s[1] \notin {" ", ","} /\ s[Len(s)] \notin {" ", ","}
              /\ ~contains(s, <<" ", " ">>)
        /\ result.len = Cardinality(result.elems)

\* The parts of the parsed name that are not empty
NonEmptyParts(hn) ==
    filter_none(<<hn_title(hn), hn_first(hn), hn_middle(hn), hn_last(hn), hn_suffix(hn)>>)

\* C10: when the parsed name has exactly one non-empty part,
\* generate_name_variations returns a one-element list holding that part
\* lower-cased and transliterated to ASCII.
C10_SingleName ==
    ( /\ ReturnedFrom("generate_name_variations")
      /\ result.kind = "list"
      /\ Len(NonEmptyParts(locals.parsed_name._parsed_name)) = 1 ) =>
        result = RetList({lower(unidecode(NonEmptyParts(locals.parsed_name._parsed_name)[1]))}, 1)


\* The method has returned for the ParsedName call.self
MethodReturned(method) == pc = "returned" /\ call.method = method

\* A given-name token that is an initial: of length 1 or with a period
IsInitial(token) == Len(token) = 1 \/ \E i \in 1..Len(token) : token[i] = "."

\* An initial rendered with a period, one appended only if it has none
Dotted(token) ==
    IF IsInitial(token) /\ \A i \in 1..Len(token) : token[i] # "."
    THEN Append(token, ".")
    ELSE token

RECURSIVE RenderedGivenNames(_)
\* The given names rendered: no separator between two initials, one space
\* between any other two tokens
RenderedGivenNames(tokens) ==
    IF tokens = <<>> THEN <<>>
    ELSE IF Len(tokens) = 1 THEN Dotted(tokens[1])
    ELSE Dotted(tokens[1])
         \o (IF IsInitial(tokens[1]) /\ IsInitial(tokens[2]) THEN <<>> ELSE <<" ">>)
         \o RenderedGivenNames(Tail(tokens))

\* C11: in dumps a given-name token is an initial iff it has length 1 or
\* contains a period; every initial is rendered with a period, appended only
\* if it has none; consecutive tokens are joined by nothing when both are
\* initials and by exactly one space otherwise.
C11_GivenNamesRendered ==
    MethodReturned("dumps") =>
        locals.normalized_names = RenderedGivenNames(first_list(call.self))

\* dumps has rendered the given names 'J', 'P' as 'J.P.'
C11_Witness ==
    /\ MethodReturned("dumps")
    /\ first_list(call.self) = << <<"J">>, <<"P">> >>
    /\ locals.normalized_names = <<"J",".","P",".">>

\* C12: in dumps a suffix all of whose characters, upper-cased, are among
\* M D C L X V I ( ) is rendered in upper case with no period added; any
\* other suffix keeps its case and gets a period appended iff it has none.
C12_SuffixRendered ==
    MethodReturned("dumps") =>
        locals.suffix =
            IF \A i \in 1..Len(suffix(call.self)) :
                   upper_char(suffix(call.self)[i]) \in {"M", "D", "C", "L", "X", "V", "I", "(", ")"}
            THEN [i \in 1..Len(suffix(call.self)) |-> upper_char(suffix(call.self)[i])]
            ELSE IF \E i \in 1..Len(suffix(call.self)) : suffix(call.self)[i] = "."
            THEN suffix(call.self)
            ELSE Append(suffix(call.self), ".")

\* dumps has rendered the suffix 'iii' as 'III'
C12_Witness ==
    /\ MethodReturned("dumps")
    /\ suffix(call.self) = <<"i","i","i">>
    /\ locals.suffix = <<"I","I","I">>

RECURSIVE JoinedByCommaSpace(_)
JoinedByCommaSpace(parts) ==
    IF parts = <<>> THEN <<>>
    ELSE IF Len(parts) = 1 THEN parts[1]
    ELSE parts[1] \o <<",", " ">> \o JoinedByCommaSpace(Tail(parts))

\* C13: dumps returns the non-empty ones among surname, normalized given
\* names and rendered suffix, in that order, joined by ', ', with every
\* curly apostrophe replaced by the ASCII one: no leading or trailing
\* separator, and no lone period for a missing suffix.
C13_FinalName ==
    MethodReturned("dumps") =>
        LET joined == JoinedByCommaSpace(
                SelectSeq(<<last(call.self), strip(locals.normalized_names, Whitespace),
                            locals.suffix>>,
                          LAMBDA part : part # <<>>))
        IN /\ result.kind = "str"
           /\ result.str = [i \in 1..Len(joined) |->
                               IF joined[i] = "U+2019" THEN "'" ELSE joined[i]]
           /\ \A i \in 1..Len(result.str) : result.str[i] # "U+2019"
           /\ Len(result.str) >= 2 =>
                 /\ SubSeq(result.str, 1, 2) # <<",", " ">>
                 /\ SubSeq(result.str, Len(result.str) - 1, Len(result.str)) # <<",", " ">>
           /\ suffix(call.self) = <<>> => locals.suffix = <<>>

\* dumps has returned "M'Kim, Dan" for the name written with the curly
\* apostrophe
C13_Witness ==
    /\ MethodReturned("dumps")
    /\ call.name = PyStr(<<"M","U+2019","K","i","m",","," ","D","a","n">>)
    /\ result.str = <<"M","'","K","i","m",","," ","D","a","n">>

\* dumps has returned for a ParsedName without given names that was built
\* from a string
DumpedWithoutGivenNames ==
    /\ MethodReturned("dumps")
    /\ first_list(call.self) = <<>>
    /\ call.op = "ParsedName"

\* C14 as claimed: when a structured name has no given-name token left
\* after filtering blanks, dumps does not fail, the raw original input
\* string stands in its output for the first-name segment, and a warning is
\* logged.
C14_OriginalAsPlaceholder ==
    DumpedWithoutGivenNames =>
        /\ result.kind = "str"
        /\ result.str = JoinedByCommaSpace(
               SelectSeq(<<last(call.self), call.self.original, locals.suffix>>,
                         LAMBDA part : part # <<>>))
        /\ warnings # <<>>

\* C14 as the code has it: when a structured name has no given-name token
\* left after filtering blanks, dumps does not fail, its output has no
\* first-name segment (the surname and the rendered suffix, if any, joined
\* by ', '), and one warning is logged that carries the raw original input
\* string.
C14_NoGivenNamesSegment ==
    DumpedWithoutGivenNames =>
        /\ result.kind = "str"
        /\ result.str = JoinedByCommaSpace(
               SelectSeq(<<last(call.self), locals.suffix>>, LAMBDA part : part # <<>>))
        /\ warnings = <<CannotProcess(call.name.chars)>>

\* dumps has returned 'Ellis' for 'Ellis,,' and logged the warning
C14_Witness ==
    /\ DumpedWithoutGivenNames
    /\ call.name = PyStr(<<"E","l","l","i","s",",",",">>)
    /\ result.str = <<"E","l","l","i","s">>
    /\ warnings = <<CannotProcess(<<"E","l","l","i","s",",",",">>)>>

\* A suffix as dumps renders it
RenderedSuffix(suffix_) ==
    IF \A i \in 1..Len(suffix_) :
           upper_char(suffix_[i]) \in {"M", "D", "C", "L", "X", "V", "I", "(", ")"}
    THEN [i \in 1..Len(suffix_) |-> upper_char(suffix_[i])]
    ELSE IF \E i \in 1..Len(suffix_) : suffix_[i] = "."
    THEN suffix_
    ELSE Append(suffix_, ".")

\* The string dumps composes of a surname, given-name tokens and a suffix
Composed(last_, tokens, suffix_) ==
    LET joined == JoinedByCommaSpace(
            SelectSeq(<<last_, strip(RenderedGivenNames(tokens), Whitespace),
                        RenderedSuffix(suffix_)>>,
                      LAMBDA part : part # <<>>))
    IN [i \in 1..Len(joined) |-> IF joined[i] = "U+2019" THEN "'" ELSE joined[i]]

LowerCased(s) == [i \in 1..Len(s) |-> lower_char(s[i])]

NonEmpty(tokens) == SelectSeq(tokens, LAMBDA token : token # <<>>)

\* The given-name tokens of a name as the parser left it: its first and
\* middle names, or its title and middle names if it has no first name
GivenNamesOrTitle(hn) ==
    NonEmpty((IF hn_first(hn) = <<>> THEN hn.title_list ELSE hn.first_list) \o hn.middle_list)

\* The tokens of a part given to from_parts
PartTokens(part) == IF part = PyNone THEN <<>> ELSE <<part.chars>>

\* C15: the output of dumps never contains the title. For a name parsed
\* from a string it is composed, up to capitalization, of the parser's
\* surname, first and middle names and suffix, the parser's title taking
\* the place of the first name only when the parser found no first name
\* (the title slot is then cleared); for a name built from parts it is
\* composed of the surname, first, middle names and suffix given, whatever
\* the title given.
C15_TitleNeverDumped ==
    MethodReturned("dumps") =>
        /\ call.op = "ParsedName" =>
              /\ LowerCased(result.str) =
                     LowerCased(Composed(hn_last(parse_full_name(call.name.chars, constants)),
                                         GivenNamesOrTitle(parse_full_name(call.name.chars, constants)),
                                         hn_suffix(parse_full_name(call.name.chars, constants))))
              /\ hn_first(parse_full_name(call.name.chars, constants)) = <<>> =>
                     hn_title(call.self._parsed_name) = <<>>
        /\ call.op = "from_parts" =>
              result.str = Composed(IF call.parts.last = PyNone THEN <<>> ELSE call.parts.last.chars,
                                    PartTokens(call.parts.first) \o PartTokens(call.parts.middle),
                                    IF call.parts.suffix = PyNone THEN <<>>
                                    ELSE call.parts.suffix.chars)

\* dumps has returned 'Ellis, John' for 'Sir John Ellis', whose title the
\* parser recognised
C15_Witness ==
    /\ MethodReturned("dumps")
    /\ call.name = PyStr(<<"S","i","r"," ","J","o","h","n"," ","E","l","l","i","s">>)
    /\ hn_title(call.self._parsed_name) = <<"S","i","r">>
    /\ result.str = <<"E","l","l","i","s",","," ","J","o","h","n">>

\* dumps has returned 'Sir' for 'Sir', the title promoted to first name
C15_PromotedTitleDumped ==
    /\ MethodReturned("dumps")
    /\ call.name = PyStr(<<"S","i","r">>)
    /\ hn_title(parse_full_name(call.name.chars, constants)) = <<"S","i","r">>
    /\ hn_title(call.self._parsed_name) = <<>>
    /\ result.str = <<"S","i","r">>

\* dumps has returned 'Ellis, John R., Jr.' for the name built from the
\* parts John, Ellis, R., Jr and the title Sir
C15_PartsWithTitleDumped ==
    /\ MethodReturned("dumps")
    /\ call.op = "from_parts"
    /\ call.parts.title # PyNone /\ call.parts.first # PyNone /\ call.parts.last # PyNone
    /\ call.parts.middle # PyNone /\ call.parts.suffix # PyNone
    /\ call.parts.first.chars = <<"J","o","h","n">>
    /\ result.str = <<"E","l","l","i","s",","," ","J","o","h","n"," ","R",".",","," ","J","r",".">>

\* C16: normalize_name is idempotent on its own output: for every non-blank
\* raw, normalize_name(normalize_name(raw)) == normalize_name(raw); and two
\* calls of dumps on the same structured name return the identical string.
C16_NormalizeNameIdempotent ==
    /\ ReturnedFrom("normalize_name") /\ IsString(call.name) /\ ~IsBlank(call.name) =>
          /\ result.kind = "str"
          /\ normalize_name(PyStr(result.str), constants).result = result
    /\ MethodReturned("dumps") => dumps(call.self).str = result.str

\* The last given-name token of the name, if it has one, has a period
LastGivenNameHasPeriod(self) ==
    /\ first_list(self) # <<>>
    /\ \E i \in 1..Len(first_list(self)[Len(first_list(self))]) :
           first_list(self)[Len(first_list(self))][i] = "."

\* C17: maybe_only_last_name is true iff the input contains no comma and
\* (the name has no given-name token or its last given-name token contains
\* no period): false for every input with a comma and for every comma-less
\* input whose last given-name token contains a period.
C17_MaybeOnlyLastName ==
    /\ pc = "returned" /\ call.op \in {"ParsedName", "loads"} /\ call.method = ""
       /\ result.kind = "ParsedName" =>
          (result.obj.maybe_only_last_name <=>
              /\ \A i \in 1..Len(call.name.chars) : call.name.chars[i] # ","
              /\ ~LastGivenNameHasPeriod(result.obj))
    /\ pc = "returned" /\ call.op = "from_parts" /\ call.method = "" =>
          (result.obj.maybe_only_last_name <=> ~LastGivenNameHasPeriod(result.obj))

\* ParsedName('John R. Ellis') has returned a name with the flag unset:
\* no comma, and the last given name 'R.' has a period
C17_Witness ==
    /\ ReturnedFrom("ParsedName")
    /\ call.name = PyStr(<<"J","o","h","n"," ","R","."," ","E","l","l","i","s">>)
    /\ result.kind = "ParsedName"
    /\ first_list(result.obj) = << <<"J","o","h","n">>, <<"R", ".">> >>
    /\ ~result.obj.maybe_only_last_name

\* loads('John Ellis') has returned a name with the flag set
C17_FlagSet ==
    /\ ReturnedFrom("loads")
    /\ call.name = PyStr(<<"J","o","h","n"," ","E","l","l","i","s">>)
    /\ result.kind = "ParsedName"
    /\ result.obj.maybe_only_last_name

\* loads('Ellis, John') has returned a name with the flag unset
C17_FlagUnsetByComma ==
    /\ ReturnedFrom("loads")
    /\ call.name = PyStr(<<"E","l","l","i","s",","," ","J","o","h","n">>)
    /\ result.kind = "ParsedName"
    /\ ~result.obj.maybe_only_last_name

\* The nodes of a query tree
MatchNode(field, query, operator, analyzer) ==
    [kind |-> "match", field |-> field, query |-> query, operator |-> operator,
     analyzer |-> analyzer, path |-> <<>>, clauses |-> <<>>]

PhrasePrefixNode(field, query, analyzer) ==
    [kind |-> "match_phrase_prefix", field |-> field, query |-> query, operator |-> "",
     analyzer |-> analyzer, path |-> <<>>, clauses |-> <<>>]

ShouldNode(clauses) ==
    [kind |-> "bool.should", field |-> <<>>, query |-> <<>>, operator |-> "",
     analyzer |-> "", path |-> <<>>, clauses |-> clauses]

NestedNode(path, must) ==
    [kind |-> "nested", field |-> <<>>, query |-> <<>>, operator |-> "",
     analyzer |-> "", path |-> path, clauses |-> must]

\* {prefix}.attribute
Field(prefix, attribute) == prefix \o <<".">> \o attribute

\* The parts of a name, one after the other: the only part of a name that
\* has one
AllParts(self) ==
    hn_title(self._parsed_name) \o hn_first(self._parsed_name) \o hn_middle(self._parsed_name)
    \o hn_last(self._parsed_name) \o hn_suffix(self._parsed_name)

\* The name has exactly one non-empty part, and it has no period
BareSingleName(self) ==
    /\ pn_len(self) = 1
    /\ \A i \in 1..Len(AllParts(self)) : AllParts(self)[i] # "."

\* C18: for a structured name with exactly one non-empty part that contains
\* no period, generate_es_query returns a nested query whose must list holds
\* exactly one clause: an AND match on {prefix}.last_name whose query value
\* is that sole token, whichever slot (first or last) the parser stored it
\* in, and no given-name clause.
C18_BareSingleName ==
    /\ MethodReturned("generate_es_query")
    /\ BareSingleName(call.self)
    /\ hn_first(call.self._parsed_name) # <<>> \/ hn_last(call.self._parsed_name) # <<>>
    => result.query =
           NestedNode(call.keyword,
                      << MatchNode(Field(call.keyword, <<"l","a","s","t","_","n","a","m","e">>), AllParts(call.self), "AND", "") >>)

\* The sub-tokens of the given names: each given name split at every
\* period that a letter, a blank or the end follows, the empty pieces left
\* out
GivenNameSubTokens(self) ==
    NonEmpty(flatten([i \in 1..Len(first_list(self)) |-> re_split(first_list(self)[i])]))

RECURSIVE FieldsIn(_)
\* The field names in a query tree
FieldsIn(node) ==
    IF node.kind \in {"match", "match_phrase_prefix"} THEN {node.field}
    ELSE UNION {FieldsIn(node.clauses[i]) : i \in 1..Len(node.clauses)}

\* The clause groups of the given names in the must list of a query
Groups(must) ==
    IF Len(must) < 2 THEN <<>>
    ELSE IF must[2].kind = "bool.must" THEN must[2].clauses
    ELSE IF must[2].kind = "{}" THEN <<>>
    ELSE <<must[2]>>

\* C19: for every name outside the bare-single-name case generate_es_query
\* returns a nested node with path equal to the prefix whose must list is,
\* in order, the AND match of the parsed surname on {prefix}.last_name and
\* the given-name part: the clause groups, one per sub-token, under a
\* bool.must when there are two or more, the single group itself when there
\* is one; every field name in the tree starts with the prefix.
C19_MustList ==
    MethodReturned("generate_es_query") /\ ~BareSingleName(call.self) =>
        /\ result.query.kind = "nested"
        /\ result.query.path = call.keyword
        /\ result.query.clauses # <<>>
        /\ result.query.clauses[1] =
               MatchNode(Field(call.keyword, <<"l","a","s","t","_","n","a","m","e">>), last(call.self), "AND", "")
        /\ Len(GivenNameSubTokens(call.self)) >= 1 =>
               /\ Len(result.query.clauses) = 2
               /\ Len(Groups(result.query.clauses)) = Len(GivenNameSubTokens(call.self))
               /\ \A i \in 1..Len(Groups(result.query.clauses)) :
                      Groups(result.query.clauses)[i].kind \in {"match", "bool.should"}
               /\ (result.query.clauses[2].kind = "bool.must"
                      <=> Len(GivenNameSubTokens(call.self)) >= 2)
        /\ \A field \in FieldsIn(result.query) :
               /\ Len(field) > Len(call.keyword) + 1
               /\ SubSeq(field, 1, Len(call.keyword) + 1) = Append(call.keyword, ".")

\* generate_es_query('authors') of 'Ellis, John R.' has returned the match
\* on authors.last_name followed by a bool.must of two groups
C19_Witness ==
    /\ MethodReturned("generate_es_query")
    /\ call.name = PyStr(<<"E","l","l","i","s",","," ","J","o","h","n"," ","R",".">>)
    /\ call.keyword = <<"a","u","t","h","o","r","s">>
    /\ Len(result.query.clauses) = 2
    /\ result.query.clauses[1].query = <<"E","l","l","i","s">>
    /\ result.query.clauses[2].kind = "bool.must"
    /\ Len(result.query.clauses[2].clauses) = 2

\* generate_es_query of 'Ellis, John' has returned the match on last_name
\* followed by the single group, unwrapped
C19_SingleGroup ==
    /\ MethodReturned("generate_es_query")
    /\ call.name = PyStr(<<"E","l","l","i","s",","," ","J","o","h","n">>)
    /\ Len(result.query.clauses) = 2
    /\ result.query.clauses[2].kind = "bool.should"

\* The clause group of a sub-token, without and with the clause on the full
\* name
InitialGroup(prefix, token) ==
    MatchNode(Field(prefix, <<"f","i","r","s","t","_","n","a","m","e",".","i","n","i","t","i","a","l","s">>), token, "AND", "names_initials_analyzer")

NameClauses(prefix, token) ==
    << PhrasePrefixNode(Field(prefix, <<"f","i","r","s","t","_","n","a","m","e">>), token, "names_analyzer"),
       MatchNode(Field(prefix, <<"f","i","r","s","t","_","n","a","m","e">>), token, "AND", "names_initials_analyzer") >>

RECURSIVE JoinedBySpace(_)
JoinedBySpace(parts) ==
    IF parts = <<>> THEN <<>>
    ELSE IF Len(parts) = 1 THEN parts[1]
    ELSE parts[1] \o <<" ">> \o JoinedBySpace(Tail(parts))

\* The parsed name as a string: its non-empty parts, single spaces between
FullName(self) ==
    JoinedBySpace(NonEmpty(<<hn_title(self._parsed_name), hn_first(self._parsed_name),
                             hn_middle(self._parsed_name), hn_last(self._parsed_name),
                             hn_suffix(self._parsed_name)>>))

\* C20 as claimed: each given-name sub-token yields exactly one clause
\* group, in token order: a sub-token of length 1 or with a period a single
\* unwrapped match on {prefix}.first_name.initials (names_initials_analyzer,
\* AND); any other sub-token a bool.should of a match_phrase_prefix on
\* {prefix}.first_name (names_analyzer) and an AND match on
\* {prefix}.first_name (names_initials_analyzer).
C20_GroupOfTwoClauses ==
    MethodReturned("generate_es_query") /\ ~BareSingleName(call.self) =>
        /\ Len(Groups(result.query.clauses)) = Len(GivenNameSubTokens(call.self))
        /\ \A i \in 1..Len(Groups(result.query.clauses)) :
               Groups(result.query.clauses)[i] =
                   IF IsInitial(GivenNameSubTokens(call.self)[i])
                   THEN InitialGroup(call.keyword, GivenNameSubTokens(call.self)[i])
                   ELSE ShouldNode(NameClauses(call.keyword, GivenNameSubTokens(call.self)[i]))

\* C20 as the code has it: each given-name sub-token yields exactly one
\* clause group, in token order: a sub-token of length 1 or with a period a
\* single unwrapped match on {prefix}.first_name.initials
\* (names_initials_analyzer, AND); any other sub-token a bool.should of a
\* match_phrase_prefix on {prefix}.first_name (names_analyzer), an AND match
\* on {prefix}.first_name (names_initials_analyzer) and, if the name's
\* maybe_only_last_name is set, an AND match on {prefix}.full_name whose
\* value is the parsed name as a string.
C20_GroupWithFullName ==
    MethodReturned("generate_es_query") /\ ~BareSingleName(call.self) =>
        /\ Len(Groups(result.query.clauses)) = Len(GivenNameSubTokens(call.self))
        /\ \A i \in 1..Len(Groups(result.query.clauses)) :
               Groups(result.query.clauses)[i] =
                   IF IsInitial(GivenNameSubTokens(call.self)[i])
                   THEN InitialGroup(call.keyword, GivenNameSubTokens(call.self)[i])
                   ELSE ShouldNode(
                            NameClauses(call.keyword, GivenNameSubTokens(call.self)[i])
                            \o (IF call.self.maybe_only_last_name
                                THEN << MatchNode(Field(call.keyword, <<"f","u","l","l","_","n","a","m","e">>),
                                                  FullName(call.self), "AND", "") >>
                                ELSE <<>>))

\* generate_es_query of 'John Ellis' has returned a group of three clauses
\* for 'John', the third one on full_name with the value 'John Ellis'
C20_Witness ==
    /\ MethodReturned("generate_es_query")
    /\ call.name = PyStr(<<"J","o","h","n"," ","E","l","l","i","s">>)
    /\ Len(result.query.clauses) = 2
    /\ result.query.clauses[2].kind = "bool.should"
    /\ Len(result.query.clauses[2].clauses) = 3
    /\ result.query.clauses[2].clauses[3].query = <<"J","o","h","n"," ","E","l","l","i","s">>

\* generate_es_query of 'R.John Ellis' has returned a group for each of
\* the sub-tokens 'R' and 'John' of its one given name
C20_SubTokens ==
    /\ MethodReturned("generate_es_query")
    /\ call.name = PyStr(<<"R",".","J","o","h","n"," ","E","l","l","i","s">>)
    /\ GivenNameSubTokens(call.self) = << <<"R">>, <<"J","o","h","n">> >>
    /\ Len(Groups(result.query.clauses)) = 2
    /\ Groups(result.query.clauses)[1].kind = "match"
    /\ Groups(result.query.clauses)[2].kind = "bool.should"

\* The clauses of a group: of a bool.should its clauses, of a single match
\* the match
ClausesOf(group) == IF group.kind = "bool.should" THEN group.clauses ELSE <<group>>

\* The clauses on {prefix}.full_name in a group
FullNameClauses(prefix, group) ==
    SelectSeq(ClausesOf(group), LAMBDA clause : clause.field = Field(prefix, <<"f","u","l","l","_","n","a","m","e">>))

\* generate_es_query has returned for a name that was parsed from a string
\* and is no bare single name
QueriedParsedString ==
    /\ MethodReturned("generate_es_query")
    /\ call.op = "ParsedName"
    /\ ~BareSingleName(call.self)

\* C21 as claimed: a third should-clause, an AND match on
\* {prefix}.full_name, is added to the group of a spelled-out given-name
\* sub-token iff maybe_only_last_name is set, and never to an initial's
\* group; its query value is the entire original input string.
C21_FullNameClauseOfOriginal ==
    QueriedParsedString =>
        \A i \in 1..Len(Groups(result.query.clauses)) :
            FullNameClauses(call.keyword, Groups(result.query.clauses)[i]) =
                IF call.self.maybe_only_last_name /\ ~IsInitial(GivenNameSubTokens(call.self)[i])
                THEN << MatchNode(Field(call.keyword, <<"f","u","l","l","_","n","a","m","e">>), call.name.chars, "AND", "") >>
                ELSE <<>>

\* C21 as the code has it: a third should-clause, an AND match on
\* {prefix}.full_name, is added to the group of a spelled-out given-name
\* sub-token iff maybe_only_last_name is set, and never to an initial's
\* group; it is the last clause of the group and its query value is the
\* parsed name as a string: the non-empty title, first, middle, last and
\* suffix parts as __init__ left them (capitalized), single spaces between.
C21_FullNameClauseOfParsedName ==
    QueriedParsedString =>
        \A i \in 1..Len(Groups(result.query.clauses)) :
            /\ FullNameClauses(call.keyword, Groups(result.query.clauses)[i]) =
                   IF call.self.maybe_only_last_name
                      /\ ~IsInitial(GivenNameSubTokens(call.self)[i])
                   THEN << MatchNode(Field(call.keyword, <<"f","u","l","l","_","n","a","m","e">>), FullName(call.self), "AND", "") >>
                   ELSE <<>>
            /\ FullNameClauses(call.keyword, Groups(result.query.clauses)[i]) # <<>> =>
                   /\ Len(ClausesOf(Groups(result.query.clauses)[i])) = 3
                   /\ ClausesOf(Groups(result.query.clauses)[i])[3].field
                          = Field(call.keyword, <<"f","u","l","l","_","n","a","m","e">>)

\* generate_es_query of 'ed witten' has returned for 'Witten' a group whose
\* third clause matches full_name against 'Ed Witten'
C21_Witness ==
    /\ QueriedParsedString
    /\ call.name = PyStr(<<"e","d"," ","w","i","t","t","e","n">>)
    /\ call.self.maybe_only_last_name
    /\ Len(Groups(result.query.clauses)) = 1
    /\ FullNameClauses(call.keyword, Groups(result.query.clauses)[1]) =
           << MatchNode(Field(call.keyword, <<"f","u","l","l","_","n","a","m","e">>), <<"E","d"," ","W","i","t","t","e","n">>, "AND", "") >>

\* The empty dict
EmptyNode ==
    [kind |-> "{}", field |-> <<>>, query |-> <<>>, operator |-> "", analyzer |-> "",
     path |-> <<>>, clauses |-> <<>>]

\* The non-empty ones of the queries given to the wrapper, in their order
NonEmptyQueries == SelectSeq(call.queries, LAMBDA q : q # EmptyNode)

C22_SingleUnwrapped ==
    /\ ReturnedFrom("wrap_queries_in_bool_clauses_if_more_than_one")
    /\ Len(call.queries) = 2 /\ Len(NonEmptyQueries) = 1
    /\ ~call.preserve_bool_semantics_if_one_clause
    /\ result.query = NonEmptyQueries[1]

\* C27: wrap_queries_in_bool_clauses_if_more_than_one never returns a bool
\* node with an empty clause list: for any input list, including a
\* non-empty list made only of empty clauses, the result is the empty node,
\* a single input clause, or a bool node holding at least one clause (at
\* least two when force-wrapping is off).
C27_NoEmptyBool ==
    ReturnedFrom("wrap_queries_in_bool_clauses_if_more_than_one") =>
        \/ result.query = EmptyNode
        \/ \E i \in 1..Len(call.queries) : result.query = call.queries[i]
        \/ /\ result.query.kind \in {"bool.must", "bool.should"}
           /\ Len(result.query.clauses) >=
                  IF call.preserve_bool_semantics_if_one_clause THEN 1 ELSE 2

\* C28: for every structured name, including one with a surname and a
\* suffix but no given-name token, the must list of the nested query that
\* generate_es_query returns contains no empty clause: each element is a
\* non-empty match or bool node.
C28_NoEmptyMustClause ==
    MethodReturned("generate_es_query") =>
        /\ result.query.kind = "nested"
        /\ \A i \in 1..Len(result.query.clauses) :
               \/ result.query.clauses[i].kind \in {"match", "match_phrase_prefix"}
               \/ /\ result.query.clauses[i].kind \in {"bool.must", "bool.should"}
                  /\ result.query.clauses[i].clauses # <<>>

RECURSIVE FragmentsFrom(_, _)
\* The fragments of a token split at every dash and every period, the
\* fragment under way given
FragmentsFrom(rest, fragment) ==
    IF rest = <<>> THEN <<fragment>>
    ELSE IF Head(rest) \in {"-", "."} THEN <<fragment>> \o FragmentsFrom(Tail(rest), <<>>)
    ELSE FragmentsFrom(Tail(rest), Append(fragment, Head(rest)))

RECURSIVE DottedInitials(_)
\* One dotted initial per non-empty fragment of the tokens, in order
DottedInitials(tokens) ==
    IF tokens = <<>> THEN <<>>
    ELSE [i \in 1..Len(NonEmpty(FragmentsFrom(Head(tokens), <<>>))) |->
             <<NonEmpty(FragmentsFrom(Head(tokens), <<>>))[i][1], ".">>]
         \o DottedInitials(Tail(tokens))

\* The name printed with initials only
PrintedWithInitials(self) ==
    strip((IF last(self) # <<>> THEN JoinedBySpace(DottedInitials(first_list(self)))
           ELSE first(self))
          \o <<" ">> \o last(self)
          \o (IF suffix(self) # <<>> THEN <<",", " ">> \o suffix(self) ELSE <<>>),
          Whitespace)

C23_NoSurname ==
    /\ ReturnedFrom("format_name")
    /\ call.initials_only
    /\ call.name = PyStr(<<"J">>)
    /\ result.str = <<"J">>

RECURSIVE SplitAtPeriods(_, _)
\* The fragments of a token split at each period that an ASCII letter, a
\* whitespace or the end of the token follows, the fragment under way given
SplitAtPeriods(rest, fragment) ==
    IF rest = <<>> THEN <<fragment>>
    ELSE IF /\ Head(rest) = "."
            /\ \/ Len(rest) = 1
               \/ IsAsciiLetter(rest[2])
               \/ rest[2] \in Whitespace
    THEN <<fragment>> \o SplitAtPeriods(Tail(rest), <<>>)
    ELSE SplitAtPeriods(Tail(rest), Append(fragment, Head(rest)))

RECURSIVE PeriodFragments(_)
\* The non-empty fragments of the tokens, in order
PeriodFragments(tokens) ==
    IF tokens = <<>> THEN <<>>
    ELSE NonEmpty(SplitAtPeriods(Head(tokens), <<>>)) \o PeriodFragments(Tail(tokens))

\* A token made only of letters and periods
OnlyLettersAndPeriods(token) ==
    \A i \in 1..Len(token) :
        IsLowerChar(token[i]) \/ IsUpperChar(token[i]) \/ token[i] = "U+857E" \/ token[i] = "."

\* The clauses of a group on the given name itself: those on
\* {prefix}.first_name and {prefix}.first_name.initials
GivenNameClauses(prefix, group) ==
    SelectSeq(ClausesOf(group), LAMBDA clause : clause.field # Field(prefix, <<"f","u","l","l","_","n","a","m","e">>))

\* C24: before clause generation, generate_es_query splits every given-name
\* token at each period that is followed by an ASCII letter, whitespace or
\* the end of the token and drops empty fragments, so glued initials yield
\* one clause group per fragment in order, and for tokens made only of
\* letters and periods no clause's query value contains a period.
C24_GluedInitialsSplit ==
    MethodReturned("generate_es_query") /\ ~BareSingleName(call.self) =>
        /\ Len(Groups(result.query.clauses)) = Len(PeriodFragments(first_list(call.self)))
        /\ \A i \in 1..Len(Groups(result.query.clauses)) :
               \A j \in 1..Len(GivenNameClauses(call.keyword, Groups(result.query.clauses)[i])) :
                   /\ GivenNameClauses(call.keyword, Groups(result.query.clauses)[i])[j].query
                          = PeriodFragments(first_list(call.self))[i]
                   /\ (\A k \in 1..Len(first_list(call.self)) :
                           OnlyLettersAndPeriods(first_list(call.self)[k]))
                      => \A k \in 1..Len(PeriodFragments(first_list(call.self))[i]) :
                             PeriodFragments(first_list(call.self))[i][k] # "."

\* generate_es_query of 'Ellis, D.K.' has returned a group for the initial
\* 'D' and one for the initial 'K'
C24_GluedInitials ==
    /\ MethodReturned("generate_es_query")
    /\ call.name = PyStr(<<"E","l","l","i","s",","," ","D",".","K",".">>)
    /\ Len(Groups(result.query.clauses)) = 2
    /\ Groups(result.query.clauses)[1].query = <<"D">>
    /\ Groups(result.query.clauses)[2].query = <<"K">>

\* generate_name_variations has returned a list for a name with more than
\* one non-empty part
VariedName ==
    /\ ReturnedFrom("generate_name_variations")
    /\ result.kind = "list"
    /\ pn_len(locals.parsed_name) # 1

\* The guard has fired: the raw input has come back with the warning
PassedThrough ==
    \/ locals.path = "skipped"
    \/ \E i \in 1..Len(warnings) : warnings[i] = Skipping(call.name.chars)

\* C25 as claimed: the explosion guard does not fire for a name with at most
\* 5 given-name tokens and at most 5 last-name tokens, whatever its suffix:
\* such a name always goes through the expansion path and never comes back
\* as the raw-input passthrough.
C25_GuardCountsGivenNames ==
    ( /\ VariedName
      /\ Len(first_list(locals.parsed_name)) <= _NAMES_MAX_NUMBER_THRESHOLD
      /\ Len(last_list(locals.parsed_name)) <= _NAMES_MAX_NUMBER_THRESHOLD ) =>
        /\ locals.path = "expanded"
        /\ ~PassedThrough

\* C25 as the code has it: the explosion guard does not fire for a name
\* with more than one non-empty part whose given-name tokens and suffix
\* tokens together are at most 5 and whose last-name tokens are at most 5:
\* such a name always goes through the expansion path and never comes back
\* as the raw-input passthrough.
C25_GuardCountsNonLastNames ==
    ( /\ VariedName
      /\ Len(NonLastNameTokens(locals.parsed_name)) <= _NAMES_MAX_NUMBER_THRESHOLD
      /\ Len(last_list(locals.parsed_name)) <= _NAMES_MAX_NUMBER_THRESHOLD ) =>
        /\ locals.path = "expanded"
        /\ ~PassedThrough

\* generate_name_variations has expanded a name with 5 given-name tokens
\* and 5 last-name tokens
C25_Witness ==
    /\ VariedName
    /\ Len(NonLastNameTokens(locals.parsed_name)) = _NAMES_MAX_NUMBER_THRESHOLD
    /\ Len(last_list(locals.parsed_name)) = _NAMES_MAX_NUMBER_THRESHOLD
    /\ locals.path = "expanded"
    /\ result.len > 1

\* generate_name_variations has passed through a name with 5 given-name
\* tokens and a suffix
C25_PassedThroughBySuffix ==
    /\ VariedName
    /\ Len(first_list(locals.parsed_name)) = _NAMES_MAX_NUMBER_THRESHOLD
    /\ Len(suffix_list(locals.parsed_name)) = 1
    /\ PassedThrough
    /\ result = RetList({call.name.chars}, 1)

\* The surname tokens of the expansion path as they appear in a variation:
\* the last names split on dashes, transliterated and lower-cased
SurnameTokens(lastnames) ==
    LET tokens == flatten([i \in 1..Len(lastnames) |-> split(lastnames[i], <<"-">>)])
    IN { t \in UNION { Range(split(lower(unidecode(tokens[i])), <<" ">>))
                       : i \in 1..Len(tokens) } : t # <<>> }

\* C26: generate_name_variations never returns the empty string as a
\* variation: on the expansion path every member of the result contains at
\* least one surname token, including for surnames with a leading, trailing
\* or doubled dash and for the all-given-names-dropped combination.
C26_NoEmptyVariation ==
    (ReturnedFrom("generate_name_variations") /\ result.kind = "list") =>
        /\ <<>> \notin result.elems
        /\ locals.path = "expanded" =>
              \A s \in result.elems :
                  \E t \in SurnameTokens(locals.last_list) : contains(s, t)

\* generate_name_variations has expanded a surname with a doubled dash and
\* the empty string is among the variations
C26_EmptyVariation ==
    /\ ReturnedFrom("generate_name_variations")
    /\ locals.path = "expanded"
    /\ locals.last_list = << <<"L","e","e","-","-","K","i","m">> >>
    /\ <<>> \in result.elems

\* The lookups of raw_aff that were searches and found an unambiguous match
SuccessfulSearches(raw_aff) ==
    { i \in 1..Len(lookups) : /\ lookups[i].raw_aff = raw_aff
                              /\ lookups[i].searched
                              /\ lookups[i].affiliations # <<>> }

\* The raw affiliations whose search found no unambiguous match, in order
SearchedInVain ==
    LET failed == SelectSeq(lookups, LAMBDA l : l.searched /\ l.affiliations = <<>>)
    IN [i \in 1..Len(failed) |-> failed[i].raw_aff]

\* C29: within one normalize_affiliations call, once a raw affiliation has
\* produced an unambiguous match it is never searched again: every later
\* occurrence, for the same or a later author, receives the affiliations
\* cached for it without a new search, so each raw affiliation has at most
\* one successful search, and a raw affiliation is appended to the ambiguous
\* list only after a search for it that found no unambiguous match.
C29_MatchedNeverSearchedAgain ==
    /\ \A i \in 1..Len(lookups), j \in 1..Len(lookups) :
          ( /\ i < j
            /\ i \in SuccessfulSearches(lookups[j].raw_aff) ) =>
              /\ ~lookups[j].searched
              /\ lookups[j].affiliations = lookups[i].affiliations
              /\ lookups[j].author >= lookups[i].author
    /\ \A raw_aff \in RawAffs : Cardinality(SuccessfulSearches(raw_aff)) <= 1
    /\ frame.ambiguous_affiliations = SearchedInVain
    /\ \A raw_aff \in DOMAIN frame.matched_affiliations :
          \E i \in SuccessfulSearches(raw_aff) :
              frame.matched_affiliations[raw_aff] = lookups[i].affiliations
    /\ frame.pc = "returned" =>
          \A i \in 1..Len(lookups) :
              Range(lookups[i].affiliations)
                  \subseteq Range(frame.normalized_affiliations[lookups[i].author])

\* normalize_affiliations has returned after a search that matched a raw
\* affiliation of the first author, the same raw affiliation taken without
\* a search for the first and for the second author, and a search in vain
C29_Witness ==
    /\ frame.pc = "returned"
    /\ frame.ambiguous_affiliations # <<>>
    /\ \E i \in 1..Len(lookups), j \in 1..Len(lookups), k \in 1..Len(lookups) :
          /\ i < j /\ j < k
          /\ i \in SuccessfulSearches(lookups[j].raw_aff)
          /\ i \in SuccessfulSearches(lookups[k].raw_aff)
          /\ lookups[i].author = 1 /\ lookups[j].author = 1 /\ lookups[k].author = 2
          /\ ~lookups[j].searched /\ ~lookups[k].searched

\* C30: normalize_affiliations leaves its input record unchanged: after the
\* call every author's 'affiliations' and 'raw_affiliations' lists in data
\* are what they were before, including for an author whose 'affiliations'
\* key is present but holds an empty list; authors that already have
\* affiliations are passed through as-is and trigger no search.
C30_InputUnchanged ==
    frame.pc = "returned" =>
        /\ data = frame.called_with
        /\ \A i \in 1..Len(get_authors(frame.called_with)) :
              get_affiliations(get_authors(frame.called_with)[i]) # <<>> =>
                  /\ frame.normalized_affiliations[i]
                         = get_affiliations(get_authors(frame.called_with)[i])
                  /\ \A l \in 1..Len(lookups) : lookups[l].author # i

\* normalize_affiliations has returned and an author whose affiliations
\* list was empty at the call now has an affiliation in data
C30_InputChanged ==
    /\ frame.pc = "returned"
    /\ \E i \in 1..Len(get_authors(frame.called_with)) :
          /\ "affiliations" \in DOMAIN get_authors(frame.called_with)[i]
          /\ get_authors(frame.called_with)[i].affiliations = <<>>
          /\ get_authors(data)[i].affiliations # <<>>

====
